---- MODULE Spec2Model ----
(***************************************************************************)
(* Model of the SpendGuard precheck backend: the knowledge store           *)
(* (backend/services/document_store.py), the rule engine                   *)
(* (backend/services/rule_engine.py) and the HTTP handlers that drive      *)
(* them (backend/main.py).                                                 *)
(*                                                                         *)
(* Python values are tagged pairs <<kind, payload>> so that values of      *)
(* different Python types can be compared: None, bool, number, str, date,  *)
(* list and dict (a dict is the sequence of its <<key, value>> items in    *)
(* insertion order).  Strings are atomic here, so the string functions     *)
(* the code relies on (str.split on a dotted path, re.compile / search,    *)
(* float(), datetime parsing, lexicographic order) are tables over the     *)
(* strings that occur in the inputs.                                       *)
(***************************************************************************)
EXTENDS Integers, Sequences, FiniteSets, TLC

VARIABLES
    records,    \* DocumentStore.records: the index, in dict insertion order
    registry,   \* DocumentStore.registry
    rules,      \* RuleEngine.rules
    opKind,     \* the handler that ran last
    opIn,       \* what that handler was given / read from disk
    opOut,      \* what that handler returned or raised
    evPc,       \* position of the in-flight evaluate() loop
    evIter,     \* the list object that loop iterates
    evIdx,      \* number of rules that loop has consumed
    evDoc,      \* the payload under evaluation
    evFindings, \* findings accumulated by that loop
    evSeen,     \* history: every rule list that was active during the loop
    evRan       \* history: the rules the loop was handed, in order

vars == <<records, registry, rules, opKind, opIn, opOut,
          evPc, evIter, evIdx, evDoc, evFindings, evSeen, evRan>>

svcVars == <<records, registry, rules, opKind, opIn, opOut>>
evVars == <<evPc, evIter, evIdx, evDoc, evFindings, evSeen, evRan>>

-----------------------------------------------------------------------------
(* Python values *)

Null == <<"null", 0>>
Str(s) == <<"str", s>>
Num(n) == <<"num", n>>
Bool(b) == <<"bool", b>>
Date(d) == <<"date", d>>
List(s) == <<"list", s>>
Map(s) == <<"map", s>>

Kind(x) == x[1]
Val(x) == x[2]

IsNull(x) == Kind(x) = "null"
IsStr(x) == Kind(x) = "str"
IsList(x) == Kind(x) = "list"
IsDict(x) == Kind(x) = "map"

\* bool(x)
Truthy(x) ==
    CASE Kind(x) = "null" -> FALSE
      [] Kind(x) = "bool" -> Val(x)
      [] Kind(x) = "num" -> Val(x) # 0
      [] Kind(x) = "str" -> Val(x) # ""
      [] Kind(x) = "list" -> Len(Val(x)) > 0
      [] Kind(x) = "map" -> Len(Val(x)) > 0
      [] OTHER -> TRUE

\* a == b; a bool compares as the number 0 or 1
AsNumber(x) == IF Kind(x) = "bool" THEN Num(IF Val(x) THEN 1 ELSE 0) ELSE x
PyEq(a, b) == AsNumber(a) = AsNumber(b)

\* x in seq
PyIn(x, seq) == \E i \in 1..Len(seq) : PyEq(seq[i], x)

\* key in d
HasKey(d, key) == \E i \in 1..Len(Val(d)) : Val(d)[i][1] = key

\* d.get(key, default)
Get(d, key, default) ==
    IF HasKey(d, key)
    THEN LET i == CHOOSE j \in 1..Len(Val(d)) : Val(d)[j][1] = key IN Val(d)[i][2]
    ELSE default

\* a or b
PyOr(a, b) == IF Truthy(a) THEN a ELSE b

\* what a call produced: a value, or the exception that left it
Ok(v) == [raised |-> FALSE, err |-> "", val |-> v]
Raise(e) == [raised |-> TRUE, err |-> e, val |-> Null]

-----------------------------------------------------------------------------
(* String tables *)

\* datetime.fromisoformat(s) as a day number; 0 stands for a ValueError
IsoValue(s) ==
    CASE s = "2024-01-01" -> 20240101
      [] s = "2024-06-01" -> 20240601
      [] OTHER -> 0

\* the strings that get ordered (effective dates, attachment types), in
\* lexicographic order
LexOrder ==
    <<"", "2024-01-01", "2024-06-01", "approval", "n/a", "receipt", "tax_invoice">>

\* the position of s in that order
StrRank(s) == CHOOSE i \in 1..Len(LexOrder) : LexOrder[i] = s

\* path.split(".")
SplitPath(path) ==
    CASE path = "items[].amount_total" -> <<"items[]", "amount_total">>
      [] path = "items[].category" -> <<"items[]", "category">>
      [] path = "items[].merchant" -> <<"items[]", "merchant">>
      [] path = "items[].approval_time" -> <<"items[]", "approval_time">>
      [] path = "title.items[]" -> <<"title", "items[]">>
      [] path = "items[].tags[]" -> <<"items[]", "tags[]">>
      [] path = "items[].other" -> <<"items[]", "other">>
      [] path = "items.amount_total" -> <<"items", "amount_total">>
      [] path = "attachments[].type" -> <<"attachments[]", "type">>
      [] path = "vendor.name" -> <<"vendor", "name">>
      [] path = "vendor.code" -> <<"vendor", "code">>
      [] OTHER -> <<path>>

\* head.endswith("[]") and head[:-2]
EndsWithBrackets(head) == head \in {"items[]", "attachments[]", "tags[]", "title[]"}
StripBrackets(head) ==
    CASE head = "items[]" -> "items"
      [] head = "attachments[]" -> "attachments"
      [] head = "tags[]" -> "tags"
      [] head = "title[]" -> "title"
      [] OTHER -> head

\* re.compile(regex) succeeds
ReCompiles(regex) == regex \notin {"(", "[a-"}

\* bool(re.compile(regex, flags).search(s)), flags being re.IGNORECASE or 0
ReSearch(regex, ignore_case, s) ==
    CASE regex = "^HQ" -> s \in {"HQ01"} \/ (ignore_case /\ s \in {"hq02"})
      [] regex = "taxi" -> s \in {"taxi"} \/ (ignore_case /\ s \in {"TAXI"})
      [] regex = "." -> s # ""
      [] regex = "^0" -> s \in {"0"}
      [] OTHER -> FALSE

\* datetime.strptime(s, fmt).date() for the first of "%Y-%m-%d", "%Y/%m/%d",
\* "%Y%m%d" that accepts s, as the number yyyymmdd; 0 when none does
StrpDate(s) ==
    CASE s = "2025-01-31" -> 20250131
      [] s = "2025/02/01" -> 20250201
      [] s = "20250131" -> 20250131
      [] s = "2025-02-01" -> 20250201
      [] OTHER -> 0

\* date.isoformat()
Pad2(n) == IF n < 10 THEN "0" \o ToString(n) ELSE ToString(n)
IsoFormat(d) ==
    ToString(d \div 10000) \o "-" \o Pad2((d \div 100) % 100) \o "-" \o Pad2(d % 100)

\* float(s) of a string: the number, or -1 when float() raises ValueError
StrFloat(s) ==
    CASE s = "100" -> 100
      [] s = "150" -> 150
      [] OTHER -> -1

\* str(x)
PyStr(x) ==
    CASE Kind(x) = "str" -> Val(x)
      [] Kind(x) = "num" -> ToString(Val(x))
      [] Kind(x) = "date" -> IsoFormat(Val(x))
      [] Kind(x) = "null" -> "None"
      [] Kind(x) = "bool" -> (IF Val(x) THEN "True" ELSE "False")
      [] OTHER -> "<object>"

\* float(x): numbers are whole in this model
PyFloat(x) ==
    CASE Kind(x) = "num" -> Ok(Val(x))
      [] Kind(x) = "bool" -> Ok(IF Val(x) THEN 1 ELSE 0)
      [] Kind(x) = "str" ->
            IF StrFloat(Val(x)) >= 0 THEN Ok(StrFloat(Val(x))) ELSE Raise("ValueError")
      [] OTHER -> Raise("TypeError")

-----------------------------------------------------------------------------
(* DocumentStore *)

\* DocumentRecord(...) from one parsed segment line
DocumentRecord(payload) ==
    [doc_id |-> Get(payload, "doc_id", Null),
     title |-> Get(payload, "title", Str("")),
     clause |-> Get(payload, "clause", Null),
     snippet |-> Get(payload, "snippet", Str("")),
     page |-> Get(payload, "page", Null),
     effective_date |-> Get(payload, "effective_date", Null),
     source_path |-> Get(payload, "source_path", Null),
     image_path |-> Get(payload, "image_path", Null)]

\* left_dt >= right_dt, an unparseable date counting as datetime.min
_is_newer(left, right) ==
    IF IsNull(left) THEN FALSE
    ELSE IF IsNull(right) THEN TRUE
    ELSE IsoValue(Val(left)) >= IsoValue(Val(right))

\* position of key (doc_id, clause) in the index, 0 when absent
KeyIndex(recs, doc_id, clause) ==
    IF \E i \in 1..Len(recs) : recs[i].doc_id = doc_id /\ recs[i].clause = clause
    THEN CHOOSE i \in 1..Len(recs) : recs[i].doc_id = doc_id /\ recs[i].clause = clause
    ELSE 0

\* lines 48-51: store the record unless the key holds a newer one
PutRecord(recs, rec) ==
    LET i == KeyIndex(recs, rec.doc_id, rec.clause) IN
    IF i = 0 THEN Append(recs, rec)
    ELSE IF _is_newer(rec.effective_date, recs[i].effective_date)
         THEN [recs EXCEPT ![i] = rec]
         ELSE recs

\* the loop over the segment file; it stops where json.loads or payload.get raises
RECURSIVE LoadLines(_, _)
LoadLines(lines, recs) ==
    IF lines = <<>> THEN [raised |-> FALSE, err |-> "", records |-> recs]
    ELSE LET line == Head(lines) IN
         CASE line.kind = "blank" -> LoadLines(Tail(lines), recs)
           [] line.kind = "bad" ->
                [raised |-> TRUE, err |-> "JSONDecodeError", records |-> recs]
           [] OTHER ->
                IF ~IsDict(line.val)
                THEN [raised |-> TRUE, err |-> "AttributeError", records |-> recs]
                ELSE LoadLines(Tail(lines), PutRecord(recs, DocumentRecord(line.val)))

\* the registry half of reload: a missing file leaves self.registry as it is
LoadRegistry(reg, regFile) ==
    IF ~regFile.exists THEN reg
    ELSE IF ~regFile.parses THEN List(<<>>)
    ELSE regFile.data

\* DocumentStore.reload
DocumentStore_reload(recs, reg, kbFile, regFile) ==
    LET loaded == IF kbFile.exists
                  THEN LoadLines(kbFile.lines, <<>>)
                  ELSE [raised |-> FALSE, err |-> "", records |-> <<>>]
    IN  IF loaded.raised
        THEN [raised |-> TRUE, err |-> loaded.err,
              records |-> loaded.records, registry |-> reg]
        ELSE [raised |-> FALSE, err |-> "",
              records |-> loaded.records, registry |-> LoadRegistry(reg, regFile)]

\* the sort key of _latest_for_doc: rec.effective_date or ""
DateKey(rec) == StrRank(Val(PyOr(rec.effective_date, Str(""))))

\* candidates.sort(key=..., reverse=True)[0]: the sort is stable, so the first
\* candidate that holds the greatest key
FirstLatest(candidates) ==
    LET i == CHOOSE j \in 1..Len(candidates) :
                /\ \A m \in 1..Len(candidates) : DateKey(candidates[m]) <= DateKey(candidates[j])
                /\ \A m \in 1..(j - 1) : DateKey(candidates[m]) < DateKey(candidates[j])
    IN  candidates[i]

\* the optional record it returns is a sequence: the record, or empty for None
NoneOrFirstLatest(candidates) ==
    IF candidates = <<>> THEN <<>> ELSE <<FirstLatest(candidates)>>

\* the first candidate, without the sort
_latest_for_doc_unsorted(recs, doc_id) ==
    IF SelectSeq(recs, LAMBDA r : r.doc_id = doc_id) = <<>> THEN <<>>
    ELSE <<SelectSeq(recs, LAMBDA r : r.doc_id = doc_id)[1]>>

\* DocumentStore._latest_for_doc
_latest_for_doc(recs, doc_id) ==
    NoneOrFirstLatest(SelectSeq(recs, LAMBDA r : r.doc_id = doc_id))

\* a lookup that goes to the latest record whatever the clause
lookup_ignoring_clause(recs, doc_id, clause) == _latest_for_doc(recs, doc_id)

\* DocumentStore.lookup
lookup(recs, doc_id, clause) ==
    IF Truthy(clause)
    THEN LET i == KeyIndex(recs, doc_id, clause) IN
         IF i # 0 THEN <<recs[i]>> ELSE _latest_for_doc(recs, doc_id)
    ELSE _latest_for_doc(recs, doc_id)

-----------------------------------------------------------------------------
(* RuleEngine.reload *)

\* a reload that empties the rules before it reads the file
RuleEngine_reload_clearing(rs, rulesFile) ==
    IF ~rulesFile.exists THEN [raised |-> FALSE, err |-> "", rules |-> <<>>]
    ELSE IF ~rulesFile.parses THEN [raised |-> TRUE, err |-> "YAMLError", rules |-> <<>>]
    ELSE IF ~IsList(PyOr(rulesFile.data, List(<<>>)))
         THEN [raised |-> TRUE, err |-> "ValueError", rules |-> <<>>]
         ELSE [raised |-> FALSE, err |-> "", rules |-> Val(PyOr(rulesFile.data, List(<<>>)))]

\* a reload that keeps the rules it has when the file is gone
RuleEngine_reload_keeping(rs, rulesFile) ==
    IF ~rulesFile.exists THEN [raised |-> FALSE, err |-> "", rules |-> rs]
    ELSE IF ~rulesFile.parses THEN [raised |-> TRUE, err |-> "YAMLError", rules |-> rs]
    ELSE IF ~IsList(PyOr(rulesFile.data, List(<<>>)))
         THEN [raised |-> TRUE, err |-> "ValueError", rules |-> rs]
         ELSE [raised |-> FALSE, err |-> "", rules |-> Val(PyOr(rulesFile.data, List(<<>>)))]

RuleEngine_reload(rs, rulesFile) ==
    IF ~rulesFile.exists THEN [raised |-> FALSE, err |-> "", rules |-> <<>>]
    ELSE IF ~rulesFile.parses THEN [raised |-> TRUE, err |-> "YAMLError", rules |-> rs]
    ELSE LET data == PyOr(rulesFile.data, List(<<>>)) IN
         IF ~IsList(data)
         THEN [raised |-> TRUE, err |-> "ValueError", rules |-> rs]
         ELSE [raised |-> FALSE, err |-> "", rules |-> Val(data)]

-----------------------------------------------------------------------------
(* Exceptions: a call yields Ok(value) or Raise(error); Bind runs the rest of *)
(* the function on the value and lets an exception pass through          *)

Bind(r, F(_)) == IF r.raised THEN r ELSE F(r.val)

\* `if not details: return []`, else the rest of the handler
IfAny(details, F(_)) == IF details = <<>> THEN Ok(<<>>) ELSE F(details)

-----------------------------------------------------------------------------
(* Path extraction and item filter *)

\* _extract: the values the generator yields, in order
RECURSIVE _extract(_, _)
RECURSIVE ExtractEach(_, _)
ExtractEach(items, tail) ==
    IF items = <<>> THEN <<>>
    ELSE _extract(Head(items), tail) \o ExtractEach(Tail(items), tail)

\* an array segment that follows its first element only
ExtractArrayFirst(iterable, tail) ==
    IF IsList(iterable) /\ Val(iterable) # <<>> THEN _extract(Head(Val(iterable)), tail)
    ELSE <<>>

\* the branch of _extract for a segment that ends in "[]"
ExtractArray(iterable, tail) ==
    IF IsList(iterable) THEN ExtractEach(Val(iterable), tail) ELSE <<>>

_extract(current, parts) ==
    IF parts = <<>> THEN <<current>>
    ELSE IF EndsWithBrackets(Head(parts))
         THEN ExtractArray(IF IsDict(current)
                           THEN Get(current, StripBrackets(Head(parts)), List(<<>>))
                           ELSE List(<<>>),
                           Tail(parts))
         ELSE IF IsDict(current) /\ HasKey(current, Head(parts))
              THEN _extract(Get(current, Head(parts), Null), Tail(parts))
              ELSE <<>>

\* list(extract_values(data, path)); path.split raises on a path that is no str
extract_values(data, path) ==
    IF ~IsStr(path) THEN Raise("AttributeError")
    ELSE Ok(_extract(data, SplitPath(Val(path))))

\* one criterion of _matches_filter: Ok(it holds) or the exception of re.compile
Criterion(value, expected) ==
    IF IsList(expected) THEN Ok(PyIn(value, Val(expected)))
    ELSE IF IsDict(expected) /\ HasKey(expected, "regex")
    THEN IF ~IsStr(Get(expected, "regex", Null)) THEN Raise("TypeError")
         ELSE IF ~ReCompiles(Val(Get(expected, "regex", Null))) THEN Raise("re.error")
         ELSE Ok(ReSearch(Val(Get(expected, "regex", Null)), TRUE,
                          PyStr(PyOr(value, Str("")))))
    ELSE Ok(PyEq(value, expected))

\* the loop of _matches_filter over criteria.items(): False at the first
\* criterion that fails
RECURSIVE MatchesCriteria(_, _)
MatchesCriteria(item, criteria) ==
    IF criteria = <<>> THEN Ok(TRUE)
    ELSE Bind(Criterion(Get(item, Head(criteria)[1], Null), Head(criteria)[2]),
              LAMBDA holds : IF holds THEN MatchesCriteria(item, Tail(criteria))
                             ELSE Ok(FALSE))

\* _matches_filter; criteria.items() raises on a filter that is no dict
_matches_filter(item, criteria) ==
    IF ~IsDict(criteria) THEN Raise("AttributeError")
    ELSE MatchesCriteria(item, Val(criteria))

\* the filtering loop of extract_items
RECURSIVE FilterItems(_, _)
FilterItems(items, item_filter) ==
    IF items = <<>> THEN Ok(<<>>)
    ELSE IF ~IsDict(Head(items)) THEN FilterItems(Tail(items), item_filter)
    ELSE Bind(_matches_filter(Head(items), item_filter),
              LAMBDA m : Bind(FilterItems(Tail(items), item_filter),
                              LAMBDA rest : Ok((IF m THEN <<Head(items)>> ELSE <<>>)
                                               \o rest)))

\* the rest of extract_items once form.get("items", []) is known
SelectItems(items, item_filter) ==
    IF ~IsList(items) THEN Ok(<<>>)
    ELSE IF ~Truthy(item_filter) THEN Ok(SelectSeq(Val(items), LAMBDA it : IsDict(it)))
    ELSE FilterItems(Val(items), item_filter)

extract_items(form, item_filter) ==
    SelectItems(Get(form, "items", List(<<>>)), item_filter)

\* parse_date, a day being the number yyyymmdd
parse_date(value) ==
    CASE Kind(value) = "date" -> Ok(value)
      [] Kind(value) = "datetime" -> Ok(value)
      [] Kind(value) = "str" ->
            IF StrpDate(Val(value)) # 0 THEN Ok(Date(StrpDate(Val(value))))
            ELSE Raise("ValueError")
      [] OTHER -> Raise("ValueError")

-----------------------------------------------------------------------------
(* Finding builder *)

\* literal messages of the source, in English
MsgFieldMissing == Str("required input missing")
MsgFieldsDefault == Str("required inputs are missing")
MsgAttachmentsDefault == Str("required attachments are missing")
MsgDeadlineDefault == Str("deadline exceeded")
MsgCapDetail == Str("amount over the cap")
MsgCapDefault == Str("cap exceeded")
MsgPatternForbidden == Str("matches a forbidden pattern")
MsgPatternNotAllowed == Str("does not match the allowed pattern")
MsgPatternDefault == Str("pattern check failed")

FindingDetail(field, message, context) ==
    [field |-> field, message |-> message, context |-> context]

\* the rest of lookup_reference once ref_conf.get("doc_id") is known
LookupDocId(recs, ref_conf, doc_id) ==
    IF ~Truthy(doc_id) THEN Ok(<<>>)
    ELSE Ok(lookup(recs, doc_id, Get(ref_conf, "clause", Null)))

lookup_reference(recs, ref_conf) ==
    IF ~IsDict(ref_conf) THEN Raise("AttributeError")
    ELSE LookupDocId(recs, ref_conf, Get(ref_conf, "doc_id", Null))

\* FindingRef(...) when the lookup found doc
FoundRef(ref_conf, doc) ==
    [doc_id |-> doc.doc_id,
     clause |-> PyOr(Get(ref_conf, "clause", Null), doc.clause),
     page |-> doc.page,
     snippet |-> doc.snippet,
     effective_date |-> doc.effective_date,
     source_path |-> doc.source_path,
     image_path |-> doc.image_path]

\* a citation that keeps the doc_id only
LiteralRefBare(ref_conf) ==
    [doc_id |-> Get(ref_conf, "doc_id", Str("")),
     clause |-> Null, page |-> Null, snippet |-> Null, effective_date |-> Null,
     source_path |-> Null, image_path |-> Null]

\* FindingRef(...) when doc is None
LiteralRef(ref_conf) ==
    [doc_id |-> Get(ref_conf, "doc_id", Str("")),
     clause |-> PyOr(Get(ref_conf, "clause", Null), Null),
     page |-> Null,
     snippet |-> Null,
     effective_date |-> Null,
     source_path |-> Get(ref_conf, "source_path", Null),
     image_path |-> Null]

FindingRef(ref_conf, doc) ==
    IF doc # <<>> THEN FoundRef(ref_conf, doc[1]) ELSE LiteralRef(ref_conf)

\* what pydantic accepts as a Finding (models.py); anything else raises
Finding(f) ==
    IF /\ IsStr(f.rule_id)
       /\ IsStr(f.message)
       /\ IsStr(f.severity) /\ Val(f.severity) \in {"error", "warning", "info"}
       /\ IsStr(f.ref.doc_id)
    THEN Ok(f)
    ELSE Raise("ValidationError")

\* the rest of build_finding once rule.get("ref", {}) is known
BuildWithRef(rule, message, details, recs, ref_conf) ==
    Bind(lookup_reference(recs, ref_conf),
         LAMBDA doc :
            Finding([rule_id |-> Get(rule, "id", Str("rule")),
                     message |-> PyOr(message, Get(rule, "description", Str(""))),
                     severity |-> Get(rule, "severity", Str("error")),
                     ref |-> FindingRef(ref_conf, doc),
                     details |-> details]))

build_finding(rule, message, details, recs) ==
    BuildWithRef(rule, message, details, recs, Get(rule, "ref", Map(<<>>)))

\* return [build_finding(...)]
OneFinding(rule, message, details, recs) ==
    Bind(build_finding(rule, message, details, recs), LAMBDA f : Ok(<<f>>))

\* the rule's description ahead of the message of the check
CheckMessageDescriptionFirst(rule, config, default) ==
    PyOr(Get(rule, "description", Null), PyOr(Get(config, "message", Null), default))

\* config.get("message") or rule.get("description", default)
CheckMessage(rule, config, default) ==
    PyOr(Get(config, "message", Null), Get(rule, "description", default))

-----------------------------------------------------------------------------
(* Operation handlers: each returns Ok(<<findings>>) or the exception raised *)

\* one-character strings as the list of their characters
Chars(s) == IF s = "" THEN <<>> ELSE <<Str(s)>>

\* the elements a for loop over x visits; strings in the inputs that are
\* iterated have at most one character
IterItems(x) ==
    CASE Kind(x) = "list" -> Ok(Val(x))
      [] Kind(x) = "map" -> Ok([i \in 1..Len(Val(x)) |-> Str(Val(x)[i][1])])
      [] Kind(x) = "str" -> Ok(Chars(Val(x)))
      [] OTHER -> Raise("TypeError")

\* value in (None, "", [])
IsBlank(value) == IsNull(value) \/ value = Str("") \/ value = List(<<>>)

\* any() in the place of all()
IsMissingAny(values) == values = <<>> \/ \E i \in 1..Len(values) : IsBlank(values[i])

\* not values or all(value in (None, "", []) for value in values)
IsMissing(values) == values = <<>> \/ \A i \in 1..Len(values) : IsBlank(values[i])

\* the loop of op_required_fields over the configured paths
RECURSIVE MissingFields(_, _)
MissingFields(form, paths) ==
    IF paths = <<>> THEN Ok(<<>>)
    ELSE Bind(extract_values(form, Head(paths)),
              LAMBDA values :
                Bind(MissingFields(form, Tail(paths)),
                     LAMBDA rest :
                        Ok((IF IsMissing(values)
                            THEN <<FindingDetail(Head(paths), MsgFieldMissing, Null)>>
                            ELSE <<>>) \o rest)))

\* the handler without its `if not missing: return []`
op_required_fields_unconditional(rule, form, config, recs) ==
    Bind(IterItems(PyOr(config, List(<<>>))),
         LAMBDA paths :
            Bind(MissingFields(form, paths),
                 LAMBDA missing :
                    OneFinding(rule, Get(rule, "description", MsgFieldsDefault),
                               missing, recs)))

op_required_fields(rule, form, config, recs) ==
    Bind(IterItems(PyOr(config, List(<<>>))),
         LAMBDA paths :
            Bind(MissingFields(form, paths),
                 LAMBDA found :
                    IfAny(found,
                          LAMBDA missing :
                            OneFinding(rule, Get(rule, "description", MsgFieldsDefault),
                                       missing, recs))))

\* the set built from the entries of a type list
RequiredTypes(entries) ==
    {IF IsDict(entries[i]) THEN Get(entries[i], "type", Null) ELSE entries[i] :
        i \in 1..Len(entries)}

\* {att.get("type") for att in attachments if att.get("type")}
TypesOf(attachments) ==
    {Get(attachments[i], "type", Null) :
        i \in {j \in 1..Len(attachments) : Truthy(Get(attachments[j], "type", Null))}}

PresentTypes(form) == TypesOf(Val(Get(form, "attachments", List(<<>>))))

RECURSIVE SortByRank(_)
SortByRank(S) ==
    IF S = {} THEN <<>>
    ELSE LET m == CHOOSE x \in S : \A y \in S : StrRank(Val(x)) <= StrRank(Val(y)) IN
         <<m>> \o SortByRank(S \ {m})

\* sorted(S, reverse=True)
SortedDescending(S) ==
    IF \A t \in S : IsStr(t)
    THEN Ok([i \in 1..Cardinality(S) |-> SortByRank(S)[Cardinality(S) + 1 - i]])
    ELSE IF Cardinality(S) = 1 THEN Ok(<<CHOOSE t \in S : TRUE>>)
    ELSE Raise("TypeError")

\* sorted(S): values that are not all strings cannot be ordered
Sorted(S) ==
    IF \A t \in S : IsStr(t) THEN Ok(SortByRank(S))
    ELSE IF Cardinality(S) = 1 THEN Ok(<<CHOOSE t \in S : TRUE>>)
    ELSE Raise("TypeError")

\* sorted(filter(None, required - present))
MissingTypes(required, present) == Sorted({t \in required \ present : Truthy(t)})

AttachmentDetails(missing) ==
    [i \in 1..Len(missing) |->
        FindingDetail(Str("attachments"),
                      Str(PyStr(missing[i]) \o " attachment required"), Null)]

op_required_attachments(rule, form, config, recs) ==
    Bind(IterItems(PyOr(config, List(<<>>))),
         LAMBDA entries :
            Bind(MissingTypes(RequiredTypes(entries), PresentTypes(form)),
                 LAMBDA found :
                    IfAny(found,
                          LAMBDA missing :
                            OneFinding(rule,
                                       Get(rule, "description", MsgAttachmentsDefault),
                                       AttachmentDetails(missing), recs))))

\* the coverage check without its `if not items: return []`
ConditionalCoverageAnyItems(rule, form, config, recs, required_types) ==
    IF required_types = {} THEN Ok(<<>>)
    ELSE Bind(MissingTypes(required_types, PresentTypes(form)),
              LAMBDA found :
                IfAny(found,
                      LAMBDA missing :
                        OneFinding(rule, CheckMessage(rule, config, MsgAttachmentsDefault),
                                   AttachmentDetails(missing), recs)))

\* op_conditional_required_attachments from `items = extract_items(...)` on
ConditionalCoverage(rule, form, config, recs, required_types) ==
    IF required_types = {} THEN Ok(<<>>)
    ELSE Bind(extract_items(form, Get(config, "item_filter", Null)),
              LAMBDA items :
                IF items = <<>> THEN Ok(<<>>)
                ELSE Bind(MissingTypes(required_types, PresentTypes(form)),
                          LAMBDA found :
                            IfAny(found,
                                  LAMBDA missing :
                                    OneFinding(rule,
                                        CheckMessage(rule, config, MsgAttachmentsDefault),
                                        AttachmentDetails(missing), recs))))

op_conditional_required_attachments(rule, form, config, recs) ==
    IF ~IsDict(config) THEN Raise("AttributeError")
    ELSE Bind(IterItems(Get(config, "types", List(<<>>))),
              LAMBDA entries :
                ConditionalCoverage(rule, form, config, recs,
                                    {t \in RequiredTypes(entries) : Truthy(t)}))

\* date.isoformat() / datetime.isoformat() of a parsed date
DateText(d) ==
    IF Kind(d) = "datetime" THEN IsoFormat(Val(d)) \o "T00:00:00" ELSE IsoFormat(Val(d))

\* op_request_date_lte from `if actual_date <= limit_date` on; a date does not
\* compare with a datetime
DateAfter(rule, config, recs, field, actual_date, limit_date) ==
    IF Kind(actual_date) # Kind(limit_date) THEN Raise("TypeError")
    ELSE IF Val(actual_date) <= Val(limit_date) THEN Ok(<<>>)
    ELSE OneFinding(rule, CheckMessage(rule, config, MsgDeadlineDefault),
                    <<FindingDetail(field,
                                    Str(DateText(actual_date) \o " > "
                                        \o DateText(limit_date)), Null)>>,
                    recs)

\* the try block: a ValueError of either parse_date ends the check
ParsedDates(rule, config, recs, field, actual, limit) ==
    IF actual.raised \/ limit.raised THEN Ok(<<>>)
    ELSE DateAfter(rule, config, recs, field, actual.val, limit.val)

\* op_request_date_lte once raw_value and limit_value are known
DateCheck(rule, config, recs, field, raw_value, limit_value) ==
    IF ~Truthy(raw_value) \/ ~Truthy(limit_value) THEN Ok(<<>>)
    ELSE ParsedDates(rule, config, recs, field,
                     parse_date(raw_value), parse_date(limit_value))

\* next(iter(values), None)
FirstOrNone(values) == IF values = <<>> THEN Null ELSE values[1]

\* op_request_date_lte once field is known
DateField(rule, form, config, recs, field) ==
    Bind(extract_values(form, field),
         LAMBDA values :
            DateCheck(rule, config, recs, field, FirstOrNone(values),
                      Get(config, "value", Null)))

op_request_date_lte(rule, form, config, recs) ==
    IF ~IsDict(config) THEN Raise("AttributeError")
    ELSE DateField(rule, form, config, recs, Get(config, "field", Str("request_date")))

\* the context string of a cap violation
CapContext(item, amount, cap) ==
    PyStr(PyOr(PyOr(Get(item, "merchant", Null), Get(item, "description", Null)),
               Str("item")))
    \o ": " \o ToString(amount) \o " > " \o ToString(cap)

\* the comparison with >= in the place of >
OverCapInclusive(item, field, amount, limit) ==
    Bind(PyFloat(limit),
         LAMBDA cap :
            Ok(IF amount >= cap
               THEN <<FindingDetail(Str("items[]." \o PyStr(field)), MsgCapDetail,
                                    Str(CapContext(item, amount, cap)))>>
               ELSE <<>>))

\* `if amount > float(limit)`: float(limit) may raise
OverCap(item, field, amount, limit) ==
    Bind(PyFloat(limit),
         LAMBDA cap :
            Ok(IF amount > cap
               THEN <<FindingDetail(Str("items[]." \o PyStr(field)), MsgCapDetail,
                                    Str(CapContext(item, amount, cap)))>>
               ELSE <<>>))

\* the body of the loop of op_per_occurrence_cap for one item
CapItem(item, field, limit, value, amount) ==
    IF IsNull(value) \/ amount.raised THEN Ok(<<>>)
    ELSE OverCap(item, field, amount.val, limit)

ItemValue(item, field) == IF IsStr(field) THEN Get(item, Val(field), Null) ELSE Null

\* the loop of op_per_occurrence_cap over the selected items
RECURSIVE CapViolations(_, _, _)
CapViolations(items, field, limit) ==
    IF items = <<>> THEN Ok(<<>>)
    ELSE Bind(CapItem(Head(items), field, limit, ItemValue(Head(items), field),
                      PyFloat(ItemValue(Head(items), field))),
              LAMBDA first :
                Bind(CapViolations(Tail(items), field, limit),
                     LAMBDA rest : Ok(first \o rest)))

\* op_per_occurrence_cap once limit is known
CapCheck(rule, form, config, recs, limit) ==
    IF IsNull(limit) THEN Ok(<<>>)
    ELSE Bind(extract_items(form, Get(config, "item_filter", Null)),
              LAMBDA items :
                Bind(CapViolations(items, Get(config, "field", Str("amount_total")), limit),
                     LAMBDA found :
                        IfAny(found,
                              LAMBDA violations :
                                OneFinding(rule, CheckMessage(rule, config, MsgCapDefault),
                                           violations, recs))))

op_per_occurrence_cap(rule, form, config, recs) ==
    IF ~IsDict(config) THEN Raise("AttributeError")
    ELSE CapCheck(rule, form, config, recs, Get(config, "limit", Null))

\* the loop body without the negate switch
PatternValueNoNegate(field, negate, matched, text) ==
    IF ~matched THEN <<FindingDetail(field, MsgPatternNotAllowed, Str(text))>> ELSE <<>>

\* the body of the loop of op_pattern for one value that is not None
PatternValue(field, negate, matched, text) ==
    (IF negate /\ matched
     THEN <<FindingDetail(field, MsgPatternForbidden, Str(text))>> ELSE <<>>)
    \o (IF ~negate /\ ~matched
        THEN <<FindingDetail(field, MsgPatternNotAllowed, Str(text))>> ELSE <<>>)

\* the loop of op_pattern over the extracted values
RECURSIVE PatternFailures(_, _, _, _, _)
PatternFailures(values, field, regex, ignore_case, negate) ==
    IF values = <<>> THEN <<>>
    ELSE (IF IsNull(Head(values)) THEN <<>>
          ELSE PatternValue(field, negate,
                            ReSearch(regex, ignore_case, PyStr(Head(values))),
                            PyStr(Head(values))))
         \o PatternFailures(Tail(values), field, regex, ignore_case, negate)

\* op_pattern once field and regex are known
PatternCheck(rule, form, config, recs, field, regex) ==
    IF ~Truthy(field) \/ ~Truthy(regex) THEN Ok(<<>>)
    ELSE IF ~IsStr(regex) THEN Raise("TypeError")
    ELSE IF ~ReCompiles(Val(regex)) THEN Raise("re.error")
    ELSE Bind(extract_values(form, field),
              LAMBDA values :
                IfAny(PatternFailures(values, field, Val(regex),
                                      Truthy(Get(config, "ignore_case", Bool(TRUE))),
                                      Truthy(Get(config, "negate", Bool(FALSE)))),
                      LAMBDA failures :
                        OneFinding(rule, CheckMessage(rule, config, MsgPatternDefault),
                                   failures, recs)))

op_pattern(rule, form, config, recs) ==
    IF ~IsDict(config) THEN Raise("AttributeError")
    ELSE PatternCheck(rule, form, config, recs,
                      Get(config, "field", Null), Get(config, "regex", Null))

\* the keys of the dispatch table
OPERATION_HANDLERS ==
    {"required_fields", "required_attachments", "conditional_required_attachments",
     "request_date_lte", "per_occurrence_cap", "pattern"}

\* handler(rule, form, config, self.store) for the handler registered as op_name
CallHandler(op_name, rule, form, config, recs) ==
    CASE op_name = "required_fields" -> op_required_fields(rule, form, config, recs)
      [] op_name = "required_attachments" ->
            op_required_attachments(rule, form, config, recs)
      [] op_name = "conditional_required_attachments" ->
            op_conditional_required_attachments(rule, form, config, recs)
      [] op_name = "request_date_lte" -> op_request_date_lte(rule, form, config, recs)
      [] op_name = "per_occurrence_cap" -> op_per_occurrence_cap(rule, form, config, recs)
      [] op_name = "pattern" -> op_pattern(rule, form, config, recs)

-----------------------------------------------------------------------------
(* RuleEngine.evaluate *)

\* one entry of applies: any(value in expected ...) or expected in values
EntryHolds(expected, values) ==
    IF IsList(expected)
    THEN \E i \in 1..Len(values) : PyIn(values[i], Val(expected))
    ELSE PyIn(expected, values)

\* a loop that returns True at the first entry that holds
RECURSIVE AppliesAny(_, _)
AppliesAny(entries, form) ==
    IF entries = <<>> THEN FALSE
    ELSE IF EntryHolds(Head(entries)[2], _extract(form, SplitPath(Head(entries)[1])))
         THEN TRUE
         ELSE AppliesAny(Tail(entries), form)

\* the loop of _is_applicable over applies.items()
RECURSIVE AppliesAll(_, _)
AppliesAll(entries, form) ==
    IF entries = <<>> THEN TRUE
    ELSE IF ~EntryHolds(Head(entries)[2], _extract(form, SplitPath(Head(entries)[1])))
         THEN FALSE
         ELSE AppliesAll(Tail(entries), form)

\* _is_applicable once rule.get("applies") is known
Applicable(applies, form) ==
    IF ~Truthy(applies) THEN Ok(TRUE)
    ELSE IF ~IsDict(applies) THEN Raise("AttributeError")
    ELSE Ok(AppliesAll(Val(applies), form))

\* rule.get raises when the rule is no dict
_is_applicable(rule, form) ==
    IF ~IsDict(rule) THEN Raise("AttributeError")
    ELSE Applicable(Get(rule, "applies", Null), form)

\* a loop that ends at the first key without handler
RECURSIVE RunEachUntilUnknown(_, _, _, _)
RunEachUntilUnknown(checks, rule, form, recs) ==
    IF checks = <<>> THEN Ok(<<>>)
    ELSE IF Head(checks)[1] \notin OPERATION_HANDLERS
         THEN Ok(<<>>)
         ELSE Bind(CallHandler(Head(checks)[1], rule, form, Head(checks)[2], recs),
                   LAMBDA op_findings :
                     Bind(RunEachUntilUnknown(Tail(checks), rule, form, recs),
                          LAMBDA rest : Ok(op_findings \o rest)))

\* the loop of _run_checks over checks.items(); a key without handler is skipped
RECURSIVE RunEach(_, _, _, _)
RunEach(checks, rule, form, recs) ==
    IF checks = <<>> THEN Ok(<<>>)
    ELSE IF Head(checks)[1] \notin OPERATION_HANDLERS
         THEN RunEach(Tail(checks), rule, form, recs)
         ELSE Bind(CallHandler(Head(checks)[1], rule, form, Head(checks)[2], recs),
                   LAMBDA op_findings :
                     Bind(RunEach(Tail(checks), rule, form, recs),
                          LAMBDA rest : Ok(op_findings \o rest)))

\* a rule without checks reported under its own description
RunChecksReportingEmpty(checks, rule, form, recs) ==
    IF ~IsDict(checks) THEN Raise("AttributeError")
    ELSE IF Val(checks) = <<>>
         THEN OneFinding(rule, Get(rule, "description", Str("")), <<>>, recs)
         ELSE RunEach(Val(checks), rule, form, recs)

\* _run_checks once rule.get("checks", {}) is known
RunChecks(checks, rule, form, recs) ==
    IF ~IsDict(checks) THEN Raise("AttributeError")
    ELSE RunEach(Val(checks), rule, form, recs)

_run_checks(rule, form, recs) ==
    RunChecks(Get(rule, "checks", Map(<<>>)), rule, form, recs)

\* one turn of the loop of evaluate (lines 35-37): what the rule adds to findings
EvaluateRule(rule, form, recs) ==
    Bind(_is_applicable(rule, form),
         LAMBDA applicable :
            IF ~applicable THEN Ok(<<>>) ELSE _run_checks(rule, form, recs))

\* a loop that returns at the first rule that reports something
RECURSIVE EvaluateRulesFirstOnly(_, _, _)
EvaluateRulesFirstOnly(rs, form, recs) ==
    IF rs = <<>> THEN Ok(<<>>)
    ELSE Bind(EvaluateRule(Head(rs), form, recs),
              LAMBDA first :
                IF first # <<>> THEN Ok(first)
                ELSE EvaluateRulesFirstOnly(Tail(rs), form, recs))

\* the loop of evaluate over self.rules
RECURSIVE EvaluateRules(_, _, _)
EvaluateRules(rs, form, recs) ==
    IF rs = <<>> THEN Ok(<<>>)
    ELSE Bind(EvaluateRule(Head(rs), form, recs),
              LAMBDA first :
                Bind(EvaluateRules(Tail(rs), form, recs),
                     LAMBDA rest : Ok(first \o rest)))

\* the status test the wrong way round
PrecheckResponseInverted(findings) ==
    [status |-> IF findings # <<>> THEN "ok" ELSE "violations", findings |-> findings]

\* PrecheckResponse(status=..., findings=findings)
PrecheckResponse(findings) ==
    [status |-> IF findings = <<>> THEN "ok" ELSE "violations", findings |-> findings]

\* RuleEngine.evaluate on the dumped payload
evaluate(rs, form, recs) ==
    Bind(EvaluateRules(rs, form, recs), LAMBDA findings : Ok(PrecheckResponse(findings)))

-----------------------------------------------------------------------------
(* Inputs: the files the service reads and the documents it is sent *)

\* segment files of every length up to MaxLines are enumerated
MaxLines == 2

Line(kind, val) == [kind |-> kind, val |-> val]

SegA1 ==
    Line("json", Map(<< <<"doc_id", Str("policy-1")>>, <<"title", Str("Policy")>>,
                        <<"clause", Str("c1")>>, <<"snippet", Str("s1")>>,
                        <<"page", Num(1)>>, <<"effective_date", Str("2024-01-01")>>,
                        <<"source_path", Str("p1.pdf")>> >>))
SegA2 ==
    Line("json", Map(<< <<"doc_id", Str("policy-1")>>, <<"title", Str("Policy")>>,
                        <<"clause", Str("c2")>>, <<"snippet", Str("s2")>>,
                        <<"effective_date", Str("2024-06-01")>> >>))
SegBad == Line("bad", Null)
SegBlank == Line("blank", Null)
SegArray == Line("json", List(<<>>))

LinePool == {SegA1, SegA2, SegBad}

SeqsUpTo(S, n) == UNION {[1..k -> S] : k \in 0..n}

KbMissing == [exists |-> FALSE, lines |-> <<>>]
KbFile(lines) == [exists |-> TRUE, lines |-> lines]
KbFiles == {KbMissing} \cup {KbFile(ls) : ls \in SeqsUpTo(LinePool, MaxLines)}
CoreKbFiles == {KbMissing, KbFile(<<SegA1, SegBlank, SegA2>>), KbFile(<<SegA1, SegArray>>)}

Summary1 ==
    Map(<< <<"doc_id", Str("policy-1")>>, <<"title", Str("Policy")>>,
           <<"effective_date", Str("2024-06-01")>>, <<"segments", Num(2)>> >>)

RegMissing == [exists |-> FALSE, parses |-> FALSE, data |-> Null]
RegBad == [exists |-> TRUE, parses |-> FALSE, data |-> Null]
RegFile(data) == [exists |-> TRUE, parses |-> TRUE, data |-> data]
RegFiles == {RegMissing, RegBad, RegFile(List(<<Summary1>>))}
CoreRegFiles == {RegMissing, RegFile(List(<<Summary1>>))}

\* rules
RuleFields ==
    Map(<< <<"id", Str("R-FIELDS")>>, <<"severity", Str("error")>>,
           <<"description", Str("title and company code")>>,
           <<"checks", Map(<< <<"required_fields", List(<<Str("title")>>)>>,
                              <<"pattern", Map(<< <<"field", Str("company_code")>>,
                                                  <<"regex", Str("^HQ")>>,
                                                  <<"ignore_case", Bool(FALSE)>> >>)>> >>)>>,
           <<"ref", Map(<< <<"doc_id", Str("policy-1")>>, <<"clause", Str("c1")>> >>)>> >>)
RuleCap ==
    Map(<< <<"id", Str("R-CAP")>>, <<"severity", Str("warning")>>,
           <<"description", Str("card spending")>>,
           <<"applies", Map(<< <<"form_type", Str("card_expense")>> >>)>>,
           <<"checks", Map(<< <<"per_occurrence_cap",
                                Map(<< <<"limit", Num(100)>>,
                                       <<"field", Str("amount_total")>> >>)>>,
                              <<"future_check", Map(<<>>)>>,
                              <<"required_attachments",
                                List(<<Str("tax_invoice"),
                                       Map(<< <<"type", Str("approval")>> >>)>>)>> >>)>>,
           <<"ref", Map(<< <<"doc_id", Str("policy-1")>> >>)>> >>)
RuleDate ==
    Map(<< <<"id", Str("R-DATE")>>, <<"severity", Str("info")>>,
           <<"description", Str("deadline and taxi receipts")>>,
           <<"checks", Map(<< <<"request_date_lte",
                                Map(<< <<"value", Str("2025-01-31")>> >>)>>,
                              <<"conditional_required_attachments",
                                Map(<< <<"item_filter",
                                         Map(<< <<"category",
                                                  Map(<< <<"regex", Str("taxi")>> >>)>> >>)>>,
                                       <<"types", List(<<Str("receipt")>>)>>,
                                       <<"message", Str("taxi needs a receipt")>> >>)>> >>)>> >>)
RuleNoChecks ==
    Map(<< <<"id", Str("R-EMPTY")>>, <<"description", Str("nothing to check")>> >>)
\* malformed check configurations
RuleBadRegex ==
    Map(<< <<"id", Str("R-BADRE")>>,
           <<"checks", Map(<< <<"pattern", Map(<< <<"field", Str("company_code")>>,
                                                  <<"regex", Str("(")>> >>)>> >>)>> >>)
RuleBadLimit ==
    Map(<< <<"id", Str("R-BADLIM")>>,
           <<"checks", Map(<< <<"per_occurrence_cap",
                                Map(<< <<"limit", Str("lots")>> >>)>> >>)>> >>)
RuleBadConfig ==
    Map(<< <<"id", Str("R-BADCFG")>>,
           <<"checks", Map(<< <<"request_date_lte", List(<<Str("2025-01-31")>>)>> >>)>> >>)

RulesMissing == [exists |-> FALSE, parses |-> FALSE, data |-> Null]
RulesUnparseable == [exists |-> TRUE, parses |-> FALSE, data |-> Null]
RulesFile(data) == [exists |-> TRUE, parses |-> TRUE, data |-> data]

\* rule files that hold a list of rules
RuleLists ==
    {<<>>,
     <<RuleFields, RuleCap>>,
     <<RuleCap, RuleFields>>,
     <<RuleDate, RuleNoChecks, RuleCap>>,
     <<RuleBadRegex, RuleFields>>,
     <<RuleFields, RuleBadLimit, RuleCap>>,
     <<RuleBadConfig, RuleDate>>}

\* what a rule file can parse to without being a list of rule mappings
OtherRuleData ==
    {Null, Map(<<>>), Num(0), Bool(FALSE), Str(""), RuleFields, Str("rules"), Num(7),
     List(<<Str("R-FIELDS"), Num(3)>>)}

RuleFiles ==
    {RulesMissing, RulesUnparseable}
    \cup {RulesFile(List(rs)) : rs \in RuleLists}
    \cup {RulesFile(d) : d \in OtherRuleData}
CoreRuleFiles == {RulesFile(List(<<RuleFields, RuleCap>>)), RulesFile(RuleFields)}

\* the (segment file, registry file, rule file) triples a load can find on disk:
\* every knowledge source with a few rule files, and every rule file with a
\* few knowledge sources
ReloadInputs ==
    (KbFiles \X RegFiles \X CoreRuleFiles) \cup (CoreKbFiles \X CoreRegFiles \X RuleFiles)

\* the triples a reload finds while an evaluation is under way
InterleavedInputs ==
    {KbFile(<<SegA1>>)} \X {RegMissing}
    \X {RulesFile(List(<<RuleFields, RuleCap>>)), RulesFile(List(<<RuleCap, RuleFields>>)),
        RulesFile(List(<<RuleDate, RuleNoChecks, RuleCap>>)), RulesFile(RuleFields)}

\* documents: FormData.model_dump(exclude_none=True)
Item(fields) == Map(fields)
DocCard ==
    Map(<< <<"form_type", Str("card_expense")>>, <<"title", Str("")>>,
           <<"company_code", Str("BR02")>>, <<"request_date", Date(20250201)>>,
           <<"items", List(<<Item(<< <<"category", Str("taxi")>>,
                                     <<"merchant", Str("X")>>,
                                     <<"amount_total", Num(150)>> >>),
                             Item(<< <<"category", Str("meal")>>,
                                     <<"amount_total", Num(50)>> >>)>>)>>,
           <<"attachments", List(<<Map(<< <<"filename", Str("a.pdf")>> >>)>>)>> >>)
DocClean ==
    Map(<< <<"form_type", Str("card_expense")>>, <<"title", Str("Trip")>>,
           <<"company_code", Str("HQ01")>>, <<"request_date", Date(20250131)>>,
           <<"items", List(<<>>)>>,
           <<"attachments", List(<<Map(<< <<"filename", Str("t.pdf")>>,
                                          <<"type", Str("tax_invoice")>> >>),
                                   Map(<< <<"filename", Str("o.pdf")>>,
                                          <<"type", Str("approval")>> >>)>>)>> >>)
DocTrip ==
    Map(<< <<"form_type", Str("trip_expense")>>, <<"title", Str("Visit")>>,
           <<"company_code", Str("hq02")>>,
           <<"items", List(<<Item(<< <<"category", Str("TAXI")>>,
                                     <<"description", Str("ride")>>,
                                     <<"amount_total", Num(100)>> >>)>>)>>,
           <<"attachments", List(<<>>)>> >>)
Docs == {DocCard, DocClean, DocTrip}

-----------------------------------------------------------------------------
(* The service: backend/main.py *)

Returned(body) == [raised |-> FALSE, err |-> "", body |-> body]
Failed(err) == [raised |-> TRUE, err |-> err, body |-> Null]

Idle ==
    /\ evPc = "idle" /\ evIter = <<>> /\ evIdx = 0 /\ evDoc = Null
    /\ evFindings = <<>> /\ evSeen = {} /\ evRan = <<>>

\* module import: DocumentStore(...) then RuleEngine(...), each constructor
\* ending in self.reload(); the service exists only when neither raises
Init ==
    /\ \E input \in ReloadInputs :
         LET s == DocumentStore_reload(<<>>, List(<<>>), input[1], input[2])
             e == RuleEngine_reload(<<>>, input[3])
         IN  /\ ~s.raised /\ ~e.raised
             /\ records = s.records
             /\ registry = s.registry
             /\ rules = e.rules
             /\ opIn = [kb |-> input[1], reg |-> input[2], src |-> input[3]]
    /\ opKind = "init"
    /\ opOut = Returned(Null)
    /\ Idle

\* GET /health
health ==
    /\ opKind' = "health"
    /\ opIn' = Null
    /\ opOut' = Returned([status |-> "ok"])
    /\ UNCHANGED <<records, registry, rules>>

\* DocumentSummary(**summary)
DocumentSummary(summary) ==
    [doc_id |-> Get(summary, "doc_id", Null), title |-> Get(summary, "title", Null),
     effective_date |-> Get(summary, "effective_date", Null),
     source_path |-> Get(summary, "source_path", Null),
     segments |-> Get(summary, "segments", Null)]

\* GET /documents
list_documents ==
    /\ opKind' = "documents"
    /\ opIn' = Null
    /\ opOut' = IF /\ IsList(registry)
                   /\ \A i \in 1..Len(Val(registry)) :
                        /\ IsDict(Val(registry)[i])
                        /\ IsStr(Get(Val(registry)[i], "doc_id", Null))
                        /\ IsStr(Get(Val(registry)[i], "title", Null))
                THEN Returned([i \in 1..Len(Val(registry)) |->
                                 DocumentSummary(Val(registry)[i])])
                ELSE Failed("ValidationError")
    /\ UNCHANGED <<records, registry, rules>>

\* the HTTP outcome of a handler: its return value, or the exception
Outcome(r) == IF r.raised THEN Failed(r.err) ELSE Returned(r.val)

\* an evaluation whose lookup pops the record it cites
precheck_consuming(payload) ==
    /\ opKind' = "precheck"
    /\ opIn' = payload
    /\ opOut' = Outcome(evaluate(rules, payload, records))
    /\ records' = IF records = <<>> THEN records ELSE Tail(records)
    /\ UNCHANGED <<registry, rules>>

\* POST /precheck
precheck(payload) ==
    /\ opKind' = "precheck"
    /\ opIn' = payload
    /\ opOut' = Outcome(evaluate(rules, payload, records))
    /\ UNCHANGED <<records, registry, rules>>

\* engine.reload() and the return of reload_resources, reached when
\* store.reload() returned
ReloadEngine(e) ==
    /\ rules' = e.rules
    /\ opOut' = IF e.raised THEN Failed(e.err) ELSE Returned([status |-> "reloaded"])

\* store.reload(): an exception ends the handler
ReloadStore(s, rulesFile) ==
    /\ records' = s.records
    /\ registry' = s.registry
    /\ IF s.raised
       THEN rules' = rules /\ opOut' = Failed(s.err)
       ELSE ReloadEngine(RuleEngine_reload(rules, rulesFile))

\* the two reloads in the other order: engine.reload() first
reload_engine_first(kbFile, regFile, rulesFile) ==
    /\ opKind' = "reload"
    /\ opIn' = [kb |-> kbFile, reg |-> regFile, src |-> rulesFile]
    /\ IF RuleEngine_reload(rules, rulesFile).raised
       THEN /\ opOut' = Failed(RuleEngine_reload(rules, rulesFile).err)
            /\ UNCHANGED <<records, registry, rules>>
       ELSE /\ rules' = RuleEngine_reload(rules, rulesFile).rules
            /\ records' = DocumentStore_reload(records, registry, kbFile, regFile).records
            /\ registry' = DocumentStore_reload(records, registry, kbFile, regFile).registry
            /\ opOut' = IF DocumentStore_reload(records, registry, kbFile, regFile).raised
                        THEN Failed(DocumentStore_reload(records, registry, kbFile, regFile).err)
                        ELSE Returned([status |-> "reloaded"])

\* POST /reload
reload_resources(kbFile, regFile, rulesFile) ==
    /\ opKind' = "reload"
    /\ opIn' = [kb |-> kbFile, reg |-> regFile, src |-> rulesFile]
    /\ ReloadStore(DocumentStore_reload(records, registry, kbFile, regFile), rulesFile)

Health == health /\ UNCHANGED evVars
ListDocuments == list_documents /\ UNCHANGED evVars
Precheck == \E payload \in Docs : precheck(payload) /\ UNCHANGED evVars
Reload ==
    \E input \in ReloadInputs :
        reload_resources(input[1], input[2], input[3]) /\ UNCHANGED evVars

Next == Health \/ ListDocuments \/ Precheck \/ Reload

\* the service as main.py runs it: every handler is a coroutine without an
\* await, so the event loop runs each one to its end before the next
Spec == Init /\ [][Next]_vars

-----------------------------------------------------------------------------
(* evaluate() one loop turn at a time, for callers that run the engine in  *)
(* threads: a reload can then fall between two turns of the loop           *)

\* a loop that reads self.rules[i] anew on every turn
IterListLive(captured, live) == live

\* `for rule in self.rules`: the loop keeps the list object it started on,
\* whatever self.rules is bound to later
IterList(captured, live) == captured

EvalBegin ==
    /\ evPc \in {"idle", "done", "failed"}
    /\ \E payload \in Docs : evDoc' = payload
    /\ evPc' = "loop"
    /\ evIter' = rules
    /\ evIdx' = 0
    /\ evFindings' = <<>>
    /\ evSeen' = {rules}
    /\ evRan' = <<>>
    /\ UNCHANGED svcVars

\* lines 35-37 for one rule: an exception ends the call
StepOutcome(rule, r) ==
    IF r.raised
    THEN /\ evPc' = "failed"
         /\ opKind' = "precheck"
         /\ opIn' = evDoc
         /\ opOut' = Failed(r.err)
         /\ UNCHANGED <<evIdx, evFindings, evRan>>
    ELSE /\ evPc' = "loop"
         /\ evIdx' = evIdx + 1
         /\ evFindings' = evFindings \o r.val
         /\ evRan' = Append(evRan, rule)
         /\ UNCHANGED <<opKind, opIn, opOut>>

StepRule(rule) == StepOutcome(rule, EvaluateRule(rule, evDoc, records))

EvalStep ==
    /\ evPc = "loop"
    /\ evIdx < Len(IterList(evIter, rules))
    /\ StepRule(IterList(evIter, rules)[evIdx + 1])
    /\ UNCHANGED <<records, registry, rules, evIter, evDoc, evSeen>>

\* lines 38-39
EvalEnd ==
    /\ evPc = "loop"
    /\ evIdx >= Len(IterList(evIter, rules))
    /\ evPc' = "done"
    /\ opKind' = "precheck"
    /\ opIn' = evDoc
    /\ opOut' = Returned(PrecheckResponse(evFindings))
    /\ UNCHANGED <<records, registry, rules, evIter, evIdx, evDoc, evFindings, evSeen, evRan>>

ReloadDuring ==
    /\ \E input \in InterleavedInputs : reload_resources(input[1], input[2], input[3])
    /\ evSeen' = IF evPc = "loop" THEN evSeen \cup {rules'} ELSE evSeen
    /\ UNCHANGED <<evPc, evIter, evIdx, evDoc, evFindings, evRan>>

NextInterleaved == EvalBegin \/ EvalStep \/ EvalEnd \/ ReloadDuring

SpecInterleaved == Init /\ [][NextInterleaved]_vars

-----------------------------------------------------------------------------
(* The engine alone: /precheck against every small rule file *)

\* rule files of every length up to MaxRules are enumerated
MaxRules == 2

RuleEmptyChecks ==
    Map(<< <<"id", Str("R-NOOP")>>, <<"description", Str("trips")>>,
           <<"applies", Map(<< <<"form_type", Str("trip_expense")>> >>)>>,
           <<"checks", Map(<<>>)>> >>)
RuleUnknownFirst ==
    Map(<< <<"id", Str("R-NEXT")>>, <<"description", Str("checks of a later release")>>,
           <<"checks", Map(<< <<"max_headcount", Num(4)>>,
                              <<"required_fields", List(<<Str("project_code")>>)>> >>)>> >>)

RuleTaxi ==
    Map(<< <<"id", Str("R-TAXI")>>, <<"description", Str("taxi rides need a project")>>,
           <<"applies", Map(<< <<"form_type",
                                 List(<<Str("card_expense"), Str("trip_expense")>>)>>,
                               <<"items[].category", Str("taxi")>> >>)>>,
           <<"checks", Map(<< <<"required_fields", List(<<Str("project_code")>>)>> >>)>> >>)
RuleEveryForm ==
    Map(<< <<"id", Str("R-ALL")>>, <<"description", Str("every form needs a drafter")>>,
           <<"applies", Map(<<>>)>>,
           <<"checks", Map(<< <<"required_fields", List(<<Str("drafter_name")>>)>> >>)>> >>)

RulePool ==
    {RuleFields, RuleCap, RuleDate, RuleNoChecks, RuleEmptyChecks, RuleUnknownFirst,
     RuleTaxi, RuleEveryForm}
EvalInputs ==
    {KbMissing, KbFile(<<SegA1, SegA2>>)} \X {RegMissing}
    \X {RulesFile(List(rs)) : rs \in SeqsUpTo(RulePool, MaxRules)}

InitEval ==
    /\ \E input \in EvalInputs :
         /\ records = DocumentStore_reload(<<>>, List(<<>>), input[1], input[2]).records
         /\ registry = DocumentStore_reload(<<>>, List(<<>>), input[1], input[2]).registry
         /\ rules = RuleEngine_reload(<<>>, input[3]).rules
         /\ opIn = [kb |-> input[1], reg |-> input[2], src |-> input[3]]
    /\ opKind = "init"
    /\ opOut = Returned(Null)
    /\ Idle

NextEval == Precheck

SpecEval == InitEval /\ [][NextEval]_vars

-----------------------------------------------------------------------------
(* The operation handlers alone: handler(rule, form, config, self.store) on  *)
(* every small configuration                                                *)

\* configured path lists and type lists of every length up to these
MaxPaths == 2
MaxTypes == 2

Datetime(d) == <<"datetime", d>>

DocMixed ==
    Map(<< <<"form_type", Str("vendor_invoice")>>, <<"title", Str("Invoice")>>,
           <<"pay_request_date", Date(20250131)>>,
           <<"items", List(<<Item(<< <<"category", Str("taxi")>>,
                                     <<"merchant", Str("")>>,
                                     <<"amount_total", Num(100)>>,
                                     <<"approval_time", Datetime(20250201)>> >>),
                             Item(<< <<"category", Str("meal")>>,
                                     <<"merchant", Str("X")>>,
                                     <<"amount_total", Num(150)>> >>)>>)>>,
           <<"attachments", List(<<Map(<< <<"filename", Str("r.pdf")>>,
                                          <<"type", Str("receipt")>> >>),
                                   Map(<< <<"filename", Str("o.pdf")>>,
                                          <<"type", Str("approval")>> >>)>>)>> >>)
CheckDocs == Docs \cup {DocMixed}

RuleBare == Map(<< <<"id", Str("R-BARE")>> >>)
RuleSourced ==
    Map(<< <<"id", Str("R-SRC")>>, <<"description", Str("see the manual")>>,
           <<"ref", Map(<< <<"doc_id", Str("policy-1")>>, <<"clause", Str("c9")>>,
                           <<"source_path", Str("manual.pdf")>> >>)>> >>)
CheckRules == {RuleFields, RuleBare, RuleSourced, RuleCap}

\* required_fields: a list of dotted paths
PathPool ==
    {Str("title"), Str("project_code"), Str("items"), Str("items[].merchant"),
     Str("company_code")}
FieldConfigs == {Null} \cup {List(ps) : ps \in SeqsUpTo(PathPool, MaxPaths)}

\* required_attachments: a list of type tags, each a string or {type: ...}
TypePool ==
    {Str("tax_invoice"), Str("receipt"), Map(<< <<"type", Str("approval")>> >>),
     Map(<< <<"name", Str("untyped")>> >>), Str("")}
AttachmentConfigs == {Null} \cup {List(ts) : ts \in SeqsUpTo(TypePool, MaxTypes)}

\* conditional_required_attachments: {item_filter, types, message}
FilterPool ==
    {Map(<< <<"category", Map(<< <<"regex", Str("taxi")>> >>)>> >>),
     Map(<< <<"category", Str("meal")>>, <<"merchant", List(<<Str("X"), Str("Y")>>)>> >>),
     Map(<< <<"category", Str("lodging")>> >>),
     Map(<<>>)}
ConditionalConfigs ==
    {Map(<< <<"types", List(ts)>> >>) : ts \in SeqsUpTo(TypePool, MaxTypes)}
    \cup {Map(<< <<"item_filter", f>>, <<"types", List(ts)>> >>) :
            f \in FilterPool, ts \in SeqsUpTo(TypePool, MaxTypes)}
    \cup {Map(<< <<"item_filter", f>>, <<"types", List(<<Str("tax_invoice")>>)>>,
                 <<"message", Str("invoice needed")>> >>) : f \in FilterPool}

\* request_date_lte: {field, value, message}; YAML reads an unquoted date as a
\* date and an unquoted timestamp as a datetime
LimitPool ==
    {Str("2025-01-31"), Str("2025/02/01"), Str("20250131"), Str("2025-02-01"),
     Str("soon"), Str(""), Date(20250131), Datetime(20250131), Num(20250131)}
DateFieldPool ==
    {Str("request_date"), Str("pay_request_date"), Str("items[].approval_time"),
     Str("title")}
DateConfigs ==
    {Map(<<>>)}
    \cup {Map(<< <<"value", v>> >>) : v \in LimitPool}
    \cup {Map(<< <<"field", f>>, <<"value", v>> >>) : f \in DateFieldPool, v \in LimitPool}
    \cup {Map(<< <<"value", Str("2025-01-31")>>, <<"message", Str("too late")>> >>)}

\* per_occurrence_cap: {limit, field, item_filter, message}
CapConfigs ==
    {Map(<<>>), Map(<< <<"limit", Num(100)>> >>), Map(<< <<"limit", Str("100")>> >>),
     Map(<< <<"limit", Num(40)>> >>),
     Map(<< <<"limit", Num(100)>>, <<"field", Str("amount_total")>>,
            <<"message", Str("over the cap")>> >>),
     Map(<< <<"limit", Num(50)>>, <<"field", Str("merchant")>> >>)}
    \cup {Map(<< <<"limit", Num(100)>>, <<"item_filter", f>> >>) : f \in FilterPool}

\* pattern: {field, regex, ignore_case, negate, message}
PatternConfigs ==
    {Map(<<>>)}
    \cup {Map(<< <<"field", f>>, <<"regex", Str(r)>> >> \o extra) :
            f \in {Str("company_code"), Str("items[].category"), Str("project_code")},
            r \in {"^HQ", "taxi"},
            extra \in {<<>>, << <<"ignore_case", Bool(FALSE)>> >>,
                       << <<"negate", Bool(TRUE)>> >>,
                       << <<"message", Str("bad code")>> >>}}

\* one call of a handler: the check key with its rule, document and config
HandlerCalls ==
    ({"required_fields"} \X CheckRules \X CheckDocs \X FieldConfigs)
    \cup ({"required_attachments"} \X CheckRules \X CheckDocs \X AttachmentConfigs)
    \cup ({"conditional_required_attachments"} \X CheckRules \X CheckDocs
            \X ConditionalConfigs)
    \cup ({"request_date_lte"} \X CheckRules \X CheckDocs \X DateConfigs)
    \cup ({"per_occurrence_cap"} \X CheckRules \X CheckDocs \X CapConfigs)
    \cup ({"pattern"} \X CheckRules \X CheckDocs \X PatternConfigs)

\* the store is loaded and _run_checks is about to call a handler
InitChecks ==
    /\ \E kbFile \in {KbMissing, KbFile(<<SegA1, SegA2>>)} :
         records = DocumentStore_reload(<<>>, List(<<>>), kbFile, RegMissing).records
    /\ \E call \in HandlerCalls :
         opIn = [op |-> call[1], rule |-> call[2], form |-> call[3], config |-> call[4]]
    /\ registry = List(<<>>)
    /\ rules = <<>>
    /\ opKind = "call"
    /\ opOut = Returned(Null)
    /\ Idle

\* line 62: op_findings = handler(rule, form, config, self.store)
RunHandler ==
    /\ opKind = "call"
    /\ opKind' = "check"
    /\ opOut' = Outcome(CallHandler(opIn.op, opIn.rule, opIn.form, opIn.config, records))
    /\ UNCHANGED <<opIn, records, registry, rules>>
    /\ UNCHANGED evVars

CheckRequiredFields == opIn.op = "required_fields" /\ RunHandler
CheckRequiredAttachments == opIn.op = "required_attachments" /\ RunHandler
CheckConditionalAttachments == opIn.op = "conditional_required_attachments" /\ RunHandler
CheckRequestDate == opIn.op = "request_date_lte" /\ RunHandler
CheckCap == opIn.op = "per_occurrence_cap" /\ RunHandler
CheckPattern == opIn.op = "pattern" /\ RunHandler

NextChecks ==
    \/ CheckRequiredFields \/ CheckRequiredAttachments \/ CheckConditionalAttachments
    \/ CheckRequestDate \/ CheckCap \/ CheckPattern

SpecChecks == InitChecks /\ [][NextChecks]_vars

-----------------------------------------------------------------------------
(* The store alone: DocumentStore(...) on segment files whose lines collide  *)
(* on a key, and lookups in the index it built                              *)

\* segment files of every length up to MaxSegments are enumerated
MaxSegments == 3

SegA1Late ==
    Line("json", Map(<< <<"doc_id", Str("policy-1")>>, <<"clause", Str("c1")>>,
                        <<"snippet", Str("s1-late")>>,
                        <<"effective_date", Str("2024-06-01")>> >>))
SegA1Again ==
    Line("json", Map(<< <<"doc_id", Str("policy-1")>>, <<"clause", Str("c1")>>,
                        <<"snippet", Str("s1-again")>>,
                        <<"effective_date", Str("2024-01-01")>> >>))
SegA1Undated ==
    Line("json", Map(<< <<"doc_id", Str("policy-1")>>, <<"clause", Str("c1")>>,
                        <<"snippet", Str("s1-undated")>> >>))
SegA1Draft ==
    Line("json", Map(<< <<"doc_id", Str("policy-1")>>, <<"clause", Str("c1")>>,
                        <<"snippet", Str("s1-draft")>> >>))
SegB ==
    Line("json", Map(<< <<"doc_id", Str("policy-2")>>, <<"snippet", Str("whole")>>,
                        <<"effective_date", Str("2024-01-01")>> >>))

SegmentPool == {SegA1, SegA2, SegA1Late, SegA1Again, SegA1Undated, SegA1Draft, SegB}
StoreFiles == {KbFile(ls) : ls \in SeqsUpTo(SegmentPool, MaxSegments)}

LookupDocIds == {Str("policy-1"), Str("policy-2"), Str("policy-9")}
LookupClauses == {Null, Str(""), Str("c1"), Str("c2"), Str("c9")}

\* DocumentStore.__init__ up to its call of self.reload(): lines 24-27
InitStore ==
    /\ records = <<>>
    /\ registry = List(<<>>)
    /\ rules = <<>>
    /\ \E kbFile \in StoreFiles :
         opIn = [kb |-> kbFile, reg |-> RegMissing, doc_id |-> Null, clause |-> Null]
    /\ opKind = "construct"
    /\ opOut = Returned(Null)
    /\ Idle

\* line 28: self.reload()
StoreReload ==
    /\ opKind = "construct"
    /\ opKind' = "reload"
    /\ records' = DocumentStore_reload(records, registry, opIn.kb, opIn.reg).records
    /\ registry' = DocumentStore_reload(records, registry, opIn.kb, opIn.reg).registry
    /\ opOut' = IF DocumentStore_reload(records, registry, opIn.kb, opIn.reg).raised
                THEN Failed(DocumentStore_reload(records, registry, opIn.kb, opIn.reg).err)
                ELSE Returned(Null)
    /\ UNCHANGED <<opIn, rules>>
    /\ UNCHANGED evVars

\* store.lookup(doc_id, clause)
StoreLookup ==
    /\ opKind \in {"reload", "lookup"}
    /\ ~opOut.raised
    /\ \E doc_id \in LookupDocIds, clause \in LookupClauses :
         /\ opIn' = [opIn EXCEPT !.doc_id = doc_id, !.clause = clause]
         /\ opOut' = Returned(lookup(records, doc_id, clause))
    /\ opKind' = "lookup"
    /\ UNCHANGED <<records, registry, rules>>
    /\ UNCHANGED evVars

NextStore == StoreReload \/ StoreLookup

SpecStore == InitStore /\ [][NextStore]_vars

-----------------------------------------------------------------------------
(* The path extractor and the item filter on their own *)

\* filters of every number of criteria up to this
MaxCriteria == 2

DocExample ==
    Map(<< <<"form_type", Str("dispatch_allowance")>>,
           <<"items", List(<<Map(<< <<"amount_total", Num(1)>> >>),
                             Map(<< <<"other", Num(2)>> >>)>>)>> >>)
DocNoItems == Map(<< <<"form_type", Str("dispatch_allowance")>>, <<"title", Str("T")>> >>)
DocItemsScalar ==
    Map(<< <<"form_type", Str("dispatch_allowance")>>, <<"items", Str("none")>> >>)
DocNested ==
    Map(<< <<"vendor", Map(<< <<"name", Str("ACME")>> >>)>>,
           <<"items", List(<<Map(<< <<"tags", List(<<Str("a"), Str("b")>>)>> >>),
                             Map(<< <<"tags", Str("x")>> >>),
                             Str("note"),
                             Map(<< <<"tags", List(<<>>)>> >>),
                             Map(<< <<"tags", List(<<Str("c")>>)>>,
                                    <<"category", Str("taxi")>> >>)>>)>> >>)
DocZero ==
    Map(<< <<"form_type", Str("dispatch_allowance")>>,
           <<"items", List(<<Item(<< <<"category", Str("taxi")>>,
                                     <<"amount_total", Num(150)>>,
                                     <<"headcount", Num(0)>> >>),
                             Item(<< <<"category", Str("TAXI")>>,
                                     <<"description", Str("ride")>>,
                                     <<"headcount", Num(3)>> >>)>>)>>,
           <<"attachments", List(<<>>)>> >>)

ExtractData ==
    CheckDocs \cup {DocExample, DocNoItems, DocItemsScalar, DocNested, Str("text")}
ExtractPaths ==
    {Str("items[].amount_total"), Str("items[].category"), Str("items[].other"),
     Str("items[].tags[]"), Str("items"), Str("items[]"), Str("title"), Str("title[]"),
     Str("project_code"), Str("items.amount_total"), Str("attachments[].type"),
     Str("vendor.name"), Str("vendor.code"), Str("title.items[]")}

\* the criteria a filter is made of: field and expected literal, list or regex
CriterionPool ==
    {<<"category", Str("taxi")>>,
     <<"category", Map(<< <<"regex", Str("taxi")>> >>)>>,
     <<"merchant", List(<<Str("X"), Str("Y")>>)>>,
     <<"merchant", Str("")>>,
     <<"description", Map(<< <<"regex", Str(".")>> >>)>>,
     <<"headcount", Map(<< <<"regex", Str("^0")>> >>)>>,
     <<"amount_total", Num(150)>>}

\* a mapping has each key once
DistinctKeys(cs) == \A i, j \in 1..Len(cs) : cs[i][1] = cs[j][1] => i = j
ItemFilters ==
    {Null} \cup {Map(cs) : cs \in {c \in SeqsUpTo(CriterionPool, MaxCriteria) :
                                     DistinctKeys(c)}}
FilterForms == CheckDocs \cup {DocExample, DocItemsScalar, DocNested, DocZero}

ExtractCalls ==
    {[op |-> "extract_values", data |-> d, arg |-> p] : d \in ExtractData, p \in ExtractPaths}
    \cup {[op |-> "extract_items", data |-> d, arg |-> f] :
            d \in FilterForms, f \in ItemFilters}

InitExtract ==
    /\ opIn \in ExtractCalls
    /\ records = <<>>
    /\ registry = List(<<>>)
    /\ rules = <<>>
    /\ opKind = "call"
    /\ opOut = Returned(Null)
    /\ Idle

\* list(extract_values(data, path))
ExtractValues ==
    /\ opKind = "call" /\ opIn.op = "extract_values"
    /\ opKind' = "extracted"
    /\ opOut' = Outcome(extract_values(opIn.data, opIn.arg))
    /\ UNCHANGED <<opIn, records, registry, rules>>
    /\ UNCHANGED evVars

\* extract_items(form, item_filter)
ExtractItems ==
    /\ opKind = "call" /\ opIn.op = "extract_items"
    /\ opKind' = "filtered"
    /\ opOut' = Outcome(extract_items(opIn.data, opIn.arg))
    /\ UNCHANGED <<opIn, records, registry, rules>>
    /\ UNCHANGED evVars

NextExtract == ExtractValues \/ ExtractItems

SpecExtract == InitExtract /\ [][NextExtract]_vars

-----------------------------------------------------------------------------
(* Properties *)

\* the exceptions that leave store.reload()
StoreRaised == opOut.raised /\ opOut.err \in {"JSONDecodeError", "AttributeError"}

\* the exceptions that leave engine.reload()
EngineRaised == opOut.raised /\ opOut.err \in {"YAMLError", "ValueError"}

\* a parsed rule source is a sequence of rule objects
IsRuleSequence(data) ==
    IsList(data) /\ \A i \in 1..Len(Val(data)) : IsDict(Val(data)[i])

\* C1: the response of Evaluate has status "ok" exactly when its findings are
\* empty, and "violations" otherwise
C1_StatusOkIffNoFindings ==
    (opKind = "precheck" /\ ~opOut.raised) =>
        /\ opOut.body.status \in {"ok", "violations"}
        /\ opOut.body.status = "ok" <=> opOut.body.findings = <<>>

C1_Witness ==
    /\ opKind = "precheck" /\ ~opOut.raised
    /\ opOut.body.status = "violations" /\ Len(opOut.body.findings) >= 2

\* C2: no exception propagates out of Evaluate: with rules that are rule
\* objects, a malformed check configuration yields no finding and the
\* evaluation still returns a response
C2_EvaluateNeverRaises ==
    (opKind = "precheck" /\ \A i \in 1..Len(rules) : IsDict(rules[i])) => ~opOut.raised

\* C3: Rule Engine Reload fails with a configuration error whenever the rule
\* source does not parse to a sequence of rule objects
C3_ReloadRejectsNonSequence ==
    (/\ opKind = "reload" /\ ~StoreRaised
     /\ opIn.src.exists /\ opIn.src.parses
     /\ ~IsRuleSequence(opIn.src.data)) => EngineRaised

\* C4: after a Knowledge Store Reload in which a backing file is missing, the
\* corresponding collection is empty and no error is raised, whatever earlier
\* reloads had loaded
C4_MissingSourceLeavesEmpty ==
    opKind = "reload" =>
        /\ ~opIn.kb.exists => (records = <<>> /\ ~StoreRaised)
        /\ (~opIn.reg.exists /\ ~StoreRaised) => registry = List(<<>>)

\* some line of the segment file is not JSON
HasUnparseableLine(kbFile) ==
    kbFile.exists /\ \E i \in 1..Len(kbFile.lines) : kbFile.lines[i].kind = "bad"

\* C5: Knowledge Store Reload never raises on unparseable content: an
\* unparseable segment line or unparseable registry content leaves the
\* affected collection empty
C5_UnparseableDegradesToEmpty ==
    opKind = "reload" =>
        /\ HasUnparseableLine(opIn.kb) => (~StoreRaised /\ records = <<>>)
        /\ (opIn.reg.exists /\ ~opIn.reg.parses /\ ~StoreRaised) => registry = List(<<>>)

\* C6: an Evaluate interleaved with Rule Engine Reloads computes its findings
\* from one rule sequence, one that was the active sequence at some point of
\* the evaluation, never from a mixture
C6_EvaluateSeesOneRuleList == evPc = "done" => evRan \in evSeen

C6_Witness ==
    /\ evPc = "done" /\ Len(evRan) >= 2 /\ Cardinality(evSeen) >= 2
    /\ rules # evRan /\ Len(rules) >= 2

\* the index a complete rebuild from the file gives: every line that can be
\* loaded, loaded
LoadableLines(kbFile) ==
    SelectSeq(kbFile.lines, LAMBDA l : l.kind = "blank" \/ (l.kind = "json" /\ IsDict(l.val)))
CompleteIndex(kbFile) ==
    IF kbFile.exists THEN LoadLines(LoadableLines(kbFile), <<>>).records ELSE <<>>

\* C7: whatever a Reload does, also one that aborts part-way, a Lookup after it
\* sees the complete pre-reload index or the complete post-reload index
C7_ReloadIndexAtomic ==
    [][opKind' = "reload" => records' \in {records, CompleteIndex(opIn'.kb)}]_vars

\* C8: /reload reloads the store first and the engine second: when the store
\* reload raises the rules are not touched, and when the rule reload raises the
\* error reaches the caller and the store holds what its reload produced
C8_StoreFirstThenRules ==
    [][opKind' = "reload" =>
        /\ DocumentStore_reload(records, registry, opIn'.kb, opIn'.reg).raised =>
                (opOut'.raised /\ rules' = rules)
        /\ (/\ ~DocumentStore_reload(records, registry, opIn'.kb, opIn'.reg).raised
            /\ RuleEngine_reload(rules, opIn'.src).raised) =>
                /\ opOut'.raised
                /\ opOut'.err = RuleEngine_reload(rules, opIn'.src).err
                /\ records' = DocumentStore_reload(records, registry, opIn'.kb, opIn'.reg).records
                /\ registry' = DocumentStore_reload(records, registry, opIn'.kb, opIn'.reg).registry
                /\ rules' = rules]_vars

C8_Witness ==
    /\ opKind = "reload" /\ EngineRaised
    /\ Len(records) = 2 /\ records = CompleteIndex(opIn.kb)
    /\ registry = List(<<Summary1>>) /\ rules # <<>>

\* C9: Evaluate writes no shared state: rule sequence, record index and
\* registry are the same after it as before, and the document it was given is
\* still the document that was submitted
C9_EvaluateWritesNothing ==
    [][opKind' = "precheck" =>
        /\ rules' = rules /\ records' = records /\ registry' = registry
        /\ opIn' \in Docs]_vars

C9_Witness ==
    /\ opKind = "precheck" /\ ~opOut.raised /\ opOut.body.findings # <<>>
    /\ records # <<>> /\ rules # <<>>
    /\ \E i \in 1..Len(opOut.body.findings) : ~IsNull(opOut.body.findings[i].ref.snippet)

RECURSIVE Flatten(_)
Flatten(seqs) == IF seqs = <<>> THEN <<>> ELSE Head(seqs) \o Flatten(Tail(seqs))

\* what check number k of rule r reports for the document
CheckFindings(r, k, form, recs) ==
    LET checks == Val(Get(r, "checks", Map(<<>>))) IN
    IF checks[k][1] \in OPERATION_HANDLERS
    THEN CallHandler(checks[k][1], r, form, checks[k][2], recs).val
    ELSE <<>>

\* what rule r reports: nothing when it does not apply, else the reports of its
\* checks in the order the rule declares them
RuleFindings(r, form, recs) ==
    IF ~_is_applicable(r, form).val THEN <<>>
    ELSE Flatten([k \in 1..Len(Val(Get(r, "checks", Map(<<>>)))) |->
                    CheckFindings(r, k, form, recs)])

\* C10: the findings Evaluate returns are those of every applicable rule, in
\* rule load order and within a rule in the declaration order of its checks
C10_FindingsInLoadOrder ==
    (opKind = "precheck" /\ ~opOut.raised) =>
        opOut.body.findings =
            Flatten([i \in 1..Len(rules) |-> RuleFindings(rules[i], opIn, records)])

C10_Witness ==
    /\ opKind = "precheck" /\ ~opOut.raised
    /\ \E i, j, k \in 1..Len(opOut.body.findings) :
        /\ i < j /\ j < k
        /\ opOut.body.findings[i].rule_id = opOut.body.findings[j].rule_id
        /\ opOut.body.findings[i] # opOut.body.findings[j]
        /\ opOut.body.findings[j].rule_id # opOut.body.findings[k].rule_id

\* the check keys of a rule that have a handler
KnownChecks(checks) == SelectSeq(checks, LAMBDA c : c[1] \in OPERATION_HANDLERS)

\* the rule with the check keys outside the dispatch table removed
WithoutUnknownChecks(rule) ==
    Map([i \in 1..Len(Val(rule)) |->
            IF Val(rule)[i][1] = "checks"
            THEN <<"checks", Map(KnownChecks(Val(Val(rule)[i][2])))>>
            ELSE Val(rule)[i]])

HasUnknownCheck(rule) ==
    \E i \in 1..Len(Val(Get(rule, "checks", Map(<<>>)))) :
        Val(Get(rule, "checks", Map(<<>>)))[i][1] \notin OPERATION_HANDLERS

\* C11: a check key outside the dispatch table is ignored: the outcome of
\* Evaluate is the outcome with the same rules after the unknown keys are removed
C11_UnknownCheckIgnored ==
    opKind = "precheck" =>
        opOut = Outcome(evaluate([i \in 1..Len(rules) |-> WithoutUnknownChecks(rules[i])],
                                 opIn, records))

C11_Witness ==
    /\ opKind = "precheck" /\ ~opOut.raised
    /\ \E i \in 1..Len(rules) :
        /\ HasUnknownCheck(rules[i])
        /\ Val(Get(rules[i], "checks", Map(<<>>)))[1][1] \notin OPERATION_HANDLERS
        /\ \E k \in 1..Len(opOut.body.findings) :
             opOut.body.findings[k].rule_id = Get(rules[i], "id", Null)

\* a rule whose checks are absent or an empty mapping
HasNoChecks(rule) == Get(rule, "checks", Map(<<>>)) = Map(<<>>)

\* C12: a rule without checks entries contributes no finding: no finding
\* carries its id, and the findings are those of the rule set without it
C12_NoChecksNoFinding ==
    (opKind = "precheck" /\ ~opOut.raised) =>
        /\ \A i \in 1..Len(rules) : \A k \in 1..Len(opOut.body.findings) :
             HasNoChecks(rules[i]) =>
                opOut.body.findings[k].rule_id # Get(rules[i], "id", Str("rule"))
        /\ opOut.body.findings =
             evaluate(SelectSeq(rules, LAMBDA r : ~HasNoChecks(r)), opIn, records).val.findings

C12_Witness ==
    /\ opKind = "precheck" /\ ~opOut.raised
    /\ opIn = DocTrip /\ opOut.body.findings # <<>>
    /\ Len(rules) = 2 /\ rules[1] = RuleEmptyChecks

\* handler op_name has been called and opOut is what it gave
Called(op_name) == opKind = "check" /\ opIn.op = op_name

\* C13: every finding a handler returns has at least one detail
C13_FindingHasDetail ==
    (opKind = "check" /\ ~opOut.raised) =>
        \A k \in 1..Len(opOut.body) : opOut.body[k].details # <<>>

C13_Witness ==
    /\ opKind = "check" /\ ~opOut.raised
    /\ opOut.body # <<>> /\ Len(opOut.body[1].details) >= 2

\* the configured paths at which the values extracted from the document are
\* none, or all null, empty string or empty list
MissingPaths(form, config) ==
    SelectSeq(Val(PyOr(config, List(<<>>))),
              LAMBDA path :
                \A v \in {extract_values(form, path).val[i] :
                            i \in 1..Len(extract_values(form, path).val)} :
                    v \in {Null, Str(""), List(<<>>)})

\* C17: required_fields reports exactly the configured paths whose extracted
\* values are none or all blank, one detail per path with the path as its
\* field, and gives no finding when no path is missing
C17_RequiredFieldsExact ==
    Called("required_fields") =>
        /\ ~opOut.raised
        /\ MissingPaths(opIn.form, opIn.config) = <<>> => opOut.body = <<>>
        /\ MissingPaths(opIn.form, opIn.config) # <<>> =>
             /\ Len(opOut.body) = 1
             /\ [i \in 1..Len(opOut.body[1].details) |-> opOut.body[1].details[i].field]
                  = MissingPaths(opIn.form, opIn.config)

C17_Witness ==
    /\ Called("required_fields") /\ ~opOut.raised
    /\ opIn.form = DocMixed
    /\ opIn.config = List(<<Str("items[].merchant"), Str("project_code")>>)
    /\ Len(opOut.body) = 1 /\ Len(opOut.body[1].details) = 1

\* the type tags a list of entries names: each entry a tag or {type: tag}
ConfiguredTags(entries) ==
    {t \in {IF IsDict(Val(entries)[i]) THEN Get(Val(entries)[i], "type", Null)
            ELSE Val(entries)[i] : i \in 1..Len(Val(entries))} :
        t \notin {Null, Str("")}}

\* the type tags on the document's attachments
AttachedTags(form) ==
    {Get(Val(Get(form, "attachments", List(<<>>)))[i], "type", Null) :
        i \in 1..Len(Val(Get(form, "attachments", List(<<>>))))} \ {Null, Str("")}

\* the tags of S in alphabetical order
Alphabetical(S) ==
    CHOOSE seq \in [1..Cardinality(S) -> S] :
        \A i, j \in 1..Cardinality(S) :
            i < j => StrRank(Val(seq[i])) < StrRank(Val(seq[j]))

\* findings is one finding with one attachment detail per tag of S, in
\* alphabetical order, or no finding when S is empty
ReportsMissingTags(findings, S) ==
    IF S = {} THEN findings = <<>>
    ELSE /\ Len(findings) = 1
         /\ findings[1].details =
              [i \in 1..Cardinality(S) |->
                 [field |-> Str("attachments"),
                  message |-> Str(Val(Alphabetical(S)[i]) \o " attachment required"),
                  context |-> Null]]

\* C18: required_attachments gives a finding exactly when the attached type
\* tags do not cover the required ones, with one detail per missing tag in
\* alphabetical order
C18_RequiredAttachmentsExact ==
    Called("required_attachments") =>
        /\ ~opOut.raised
        /\ ReportsMissingTags(opOut.body,
              ConfiguredTags(PyOr(opIn.config, List(<<>>))) \ AttachedTags(opIn.form))

C18_Witness ==
    /\ Called("required_attachments") /\ ~opOut.raised
    /\ opIn.config = List(<<Str("tax_invoice"), Map(<< <<"type", Str("approval")>> >>)>>)
    /\ opIn.form = DocCard
    /\ Len(opOut.body) = 1 /\ Len(opOut.body[1].details) = 2

\* C19: conditional_required_attachments gives no finding when its item_filter
\* selects no item; when it selects one or more, it is the coverage check on
\* the configured types
C19_ConditionalOnSelectedItems ==
    Called("conditional_required_attachments") =>
        /\ ~opOut.raised
        /\ IF extract_items(opIn.form, Get(opIn.config, "item_filter", Null)).val = <<>>
           THEN opOut.body = <<>>
           ELSE ReportsMissingTags(opOut.body,
                    ConfiguredTags(Get(opIn.config, "types", List(<<>>)))
                        \ AttachedTags(opIn.form))

C19_WitnessSelected ==
    /\ Called("conditional_required_attachments") /\ ~opOut.raised
    /\ opIn.form = DocCard
    /\ Get(opIn.config, "item_filter", Null)
         = Map(<< <<"category", Map(<< <<"regex", Str("taxi")>> >>)>> >>)
    /\ opOut.body # <<>> /\ Len(opOut.body[1].details) = 2

C19_Witness ==
    /\ Called("conditional_required_attachments") /\ ~opOut.raised
    /\ opIn.form = DocCard
    /\ Get(opIn.config, "item_filter", Null) = Map(<< <<"category", Str("lodging")>> >>)
    /\ ConfiguredTags(Get(opIn.config, "types", List(<<>>))) \ AttachedTags(opIn.form) # {}
    /\ opOut.body = <<>>

\* the day a value parses to as a date, 0 when it does not parse
DayOf(v) ==
    CASE Kind(v) \in {"date", "datetime"} -> Val(v)
      [] Kind(v) = "str" -> StrpDate(Val(v))
      [] OTHER -> 0

\* the first value at the configured field of the document
DateFieldValue(form, config) ==
    FirstOrNone(extract_values(form, Get(config, "field", Str("request_date"))).val)

\* C20: request_date_lte gives a finding, with a single detail, exactly when
\* field value and limit both parse as dates and the field date is later than
\* the limit; otherwise it gives no finding, and it never raises
C20_RequestDateLte ==
    Called("request_date_lte") =>
        /\ ~opOut.raised
        /\ opOut.body # <<>> <=>
             /\ DayOf(DateFieldValue(opIn.form, opIn.config)) # 0
             /\ DayOf(Get(opIn.config, "value", Null)) # 0
             /\ DayOf(DateFieldValue(opIn.form, opIn.config))
                  > DayOf(Get(opIn.config, "value", Null))
        /\ opOut.body # <<>> =>
             Len(opOut.body) = 1 /\ Len(opOut.body[1].details) = 1

\* the records of the index under document id doc_id
RecordsOf(doc_id) == {records[i] : i \in {j \in 1..Len(records) : records[j].doc_id = doc_id}}

\* a record is stored under the exact key (doc_id, clause)
StoredUnder(doc_id, clause) ==
    {r \in RecordsOf(doc_id) : r.clause = clause}

\* C14: Lookup with a non-empty clause that has a record under the exact key
\* returns that record, whatever the dates of the other records of the document
C14_ExactKeyWins ==
    (/\ opKind = "lookup" /\ opIn.clause \notin {Null, Str("")}
     /\ StoredUnder(opIn.doc_id, opIn.clause) # {}) =>
        /\ Len(opOut.body) = 1
        /\ opOut.body[1] \in StoredUnder(opIn.doc_id, opIn.clause)

C14_Witness ==
    /\ opKind = "lookup" /\ opIn.doc_id = Str("policy-1") /\ opIn.clause = Str("c1")
    /\ Len(opOut.body) = 1 /\ opOut.body[1].effective_date = Str("2024-01-01")
    /\ \E r \in RecordsOf(Str("policy-1")) :
         r.clause = Str("c2") /\ r.effective_date = Str("2024-06-01")

\* the rank of a record's effective date, a missing date ranking as ""
DateRank(r) == StrRank(IF IsNull(r.effective_date) THEN "" ELSE Val(r.effective_date))

\* C15: Lookup without clause, or without a record under the exact key, returns
\* a record of the document with the greatest effective date, and none exactly
\* when the index has no record of the document
C15_FallbackIsLatest ==
    (/\ opKind = "lookup"
     /\ (opIn.clause \in {Null, Str("")} \/ StoredUnder(opIn.doc_id, opIn.clause) = {})) =>
        /\ opOut.body = <<>> <=> RecordsOf(opIn.doc_id) = {}
        /\ opOut.body # <<>> =>
             /\ Len(opOut.body) = 1
             /\ opOut.body[1] \in RecordsOf(opIn.doc_id)
             /\ \A r \in RecordsOf(opIn.doc_id) : DateRank(r) <= DateRank(opOut.body[1])

C15_Witness ==
    /\ opKind = "lookup" /\ opIn.doc_id = Str("policy-1") /\ opIn.clause = Str("c9")
    /\ Len(records) = 2 /\ IsNull(records[1].effective_date)
    /\ opOut.body = <<records[2]>>

\* the day of a segment's effective date, -1 when it has none
SegmentDay(line) ==
    IF HasKey(line.val, "effective_date")
    THEN IsoValue(Val(Get(line.val, "effective_date", Null)))
    ELSE -1

SameKey(a, b) ==
    /\ Get(a.val, "doc_id", Null) = Get(b.val, "doc_id", Null)
    /\ Get(a.val, "clause", Null) = Get(b.val, "clause", Null)

\* segment i of the file wins its key: every other segment of the key has an
\* earlier date or none, or the same date and an earlier place in the file
WinsKey(lines, i) ==
    \A j \in 1..Len(lines) :
        (j # i /\ SameKey(lines[i], lines[j])) =>
            \/ SegmentDay(lines[i]) > SegmentDay(lines[j])
            \/ SegmentDay(lines[i]) = SegmentDay(lines[j]) /\ j < i

\* C16: after a reload the record stored under each key is the segment with the
\* later effective date, a dated segment winning over an undated one, and on a
\* tie the segment loaded later
C16_CollisionWinner ==
    opKind = "reload" =>
        \A i \in 1..Len(opIn.kb.lines) :
            WinsKey(opIn.kb.lines, i) =>
                \E k \in 1..Len(records) : records[k] = DocumentRecord(opIn.kb.lines[i].val)

\* the number a field value stands for, -1 when it is not numeric
NumericValue(v) ==
    CASE Kind(v) = "num" -> Val(v)
      [] Kind(v) = "str" -> StrFloat(Val(v))
      [] OTHER -> -1

\* the selected items whose value at field is numeric and greater than limit
OverLimit(form, config) ==
    SelectSeq(extract_items(form, Get(config, "item_filter", Null)).val,
              LAMBDA item :
                /\ HasKey(item, Val(Get(config, "field", Str("amount_total"))))
                /\ NumericValue(Get(item, Val(Get(config, "field", Str("amount_total"))), Null))
                     > NumericValue(Get(config, "limit", Null)))

\* the name an item goes by: its merchant, else its description
ItemLabel(item) ==
    IF Get(item, "merchant", Str("")) # Str("") THEN Val(Get(item, "merchant", Null))
    ELSE IF Get(item, "description", Str("")) # Str("")
    THEN Val(Get(item, "description", Null))
    ELSE "item"

\* C21: per_occurrence_cap gives one detail per selected item whose numeric
\* value is greater than the limit, in item order, all in one finding; items
\* with a missing, non-numeric or smaller-or-equal value give none, and there is
\* no finding when no item offends
C21_CapPerItem ==
    (Called("per_occurrence_cap") /\ NumericValue(Get(opIn.config, "limit", Num(0))) >= 0) =>
        /\ ~opOut.raised
        /\ IF ~HasKey(opIn.config, "limit") \/ OverLimit(opIn.form, opIn.config) = <<>>
           THEN opOut.body = <<>>
           ELSE /\ Len(opOut.body) = 1
                /\ [i \in 1..Len(opOut.body[1].details) |-> opOut.body[1].details[i].context]
                     = [i \in 1..Len(OverLimit(opIn.form, opIn.config)) |->
                          Str(ItemLabel(OverLimit(opIn.form, opIn.config)[i]) \o ": "
                              \o ToString(NumericValue(Get(OverLimit(opIn.form, opIn.config)[i],
                                    Val(Get(opIn.config, "field", Str("amount_total"))), Null)))
                              \o " > "
                              \o ToString(NumericValue(Get(opIn.config, "limit", Null))))]

C21_Witness ==
    /\ Called("per_occurrence_cap") /\ ~opOut.raised
    /\ opIn.form = DocCard /\ Get(opIn.config, "limit", Null) = Num(100)
    /\ Len(opOut.body) = 1 /\ Len(opOut.body[1].details) = 1
    /\ opOut.body[1].details[1].context = Str("X: 150 > 100")

\* the extracted values that fail the pattern: not null, and matching when
\* negate is set, not matching when it is not
FailingValues(form, config) ==
    SelectSeq(extract_values(form, Get(config, "field", Null)).val,
              LAMBDA v :
                /\ ~IsNull(v)
                /\ ReSearch(Val(Get(config, "regex", Null)),
                            Get(config, "ignore_case", Bool(TRUE)) = Bool(TRUE), PyStr(v))
                     = (Get(config, "negate", Bool(FALSE)) = Bool(TRUE)))

\* C22: pattern gives one detail per failing value, with the value as context,
\* in one finding, and no finding when no value fails
C22_PatternPerValue ==
    (Called("pattern") /\ HasKey(opIn.config, "field") /\ HasKey(opIn.config, "regex")) =>
        /\ ~opOut.raised
        /\ IF FailingValues(opIn.form, opIn.config) = <<>>
           THEN opOut.body = <<>>
           ELSE /\ Len(opOut.body) = 1
                /\ [i \in 1..Len(opOut.body[1].details) |->
                      <<opOut.body[1].details[i].field, opOut.body[1].details[i].context>>]
                     = [i \in 1..Len(FailingValues(opIn.form, opIn.config)) |->
                          <<Get(opIn.config, "field", Null),
                            Str(PyStr(FailingValues(opIn.form, opIn.config)[i]))>>]

C22_Witness ==
    /\ Called("pattern") /\ ~opOut.raised
    /\ Get(opIn.config, "negate", Null) = Bool(TRUE)
    /\ Get(opIn.config, "field", Null) = Str("items[].category")
    /\ opIn.form = DocCard
    /\ Len(opOut.body) = 1 /\ Len(opOut.body[1].details) = 1
    /\ opOut.body[1].details[1].context = Str("taxi")

\* an entry (path, expected) of applies holds: some value extracted at path is
\* a member of expected when expected is a list, equals expected otherwise
AppliesEntryHolds(form, path, expected) ==
    \E k \in 1..Len(extract_values(form, Str(path)).val) :
        IF IsList(expected)
        THEN \E m \in 1..Len(Val(expected)) :
                Val(expected)[m] = extract_values(form, Str(path)).val[k]
        ELSE extract_values(form, Str(path)).val[k] = expected

\* the rule has no applies predicate, or every entry of it holds
RuleApplies(rule, form) ==
    \A i \in 1..Len(Val(Get(rule, "applies", Map(<<>>)))) :
        AppliesEntryHolds(form, Val(Get(rule, "applies", Map(<<>>)))[i][1],
                          Val(Get(rule, "applies", Map(<<>>)))[i][2])

\* C23: a rule is applicable exactly when it has no applies predicate or every
\* entry of applies holds; the findings of Evaluate are those of the checks of
\* the applicable rules, a rule that is not applicable giving none
C23_ApplicableExactly ==
    (opKind = "precheck" /\ ~opOut.raised) =>
        /\ \A i \in 1..Len(rules) :
             _is_applicable(rules[i], opIn).val = RuleApplies(rules[i], opIn)
        /\ opOut.body.findings =
             Flatten([i \in 1..Len(rules) |->
                        IF RuleApplies(rules[i], opIn)
                        THEN _run_checks(rules[i], opIn, records).val
                        ELSE <<>>])

C23_Witness ==
    /\ opKind = "precheck" /\ ~opOut.raised
    /\ opIn = DocTrip
    /\ rules = <<RuleTaxi, RuleEveryForm>>
    /\ Len(opOut.body.findings) = 1
    /\ opOut.body.findings[1].rule_id = Str("R-ALL")

\* the reference the rule of the call configures
RefConf == Get(opIn.rule, "ref", Map(<<>>))

\* the record the store gives for that reference: a sequence of one record, or
\* empty when no doc_id is configured or the lookup finds none
ResolvedRecord ==
    IF ~HasKey(RefConf, "doc_id") THEN <<>>
    ELSE lookup(records, Get(RefConf, "doc_id", Null), Get(RefConf, "clause", Null))

\* C24: with a resolved record the citation takes page, snippet, effective date
\* and image path from the record, and clause and source_path from the rule
\* when the rule sets them, from the record otherwise
C24_CitationFromRecord ==
    (opKind = "check" /\ ~opOut.raised /\ opOut.body # <<>> /\ ResolvedRecord # <<>>) =>
        /\ opOut.body[1].ref.page = ResolvedRecord[1].page
        /\ opOut.body[1].ref.snippet = ResolvedRecord[1].snippet
        /\ opOut.body[1].ref.effective_date = ResolvedRecord[1].effective_date
        /\ opOut.body[1].ref.image_path = ResolvedRecord[1].image_path
        /\ opOut.body[1].ref.clause =
             Get(RefConf, "clause", ResolvedRecord[1].clause)
        /\ opOut.body[1].ref.source_path =
             Get(RefConf, "source_path", ResolvedRecord[1].source_path)

\* a finding without its citation
Uncited(f) == [rule_id |-> f.rule_id, message |-> f.message, severity |-> f.severity,
               details |-> f.details]

\* C25: without a configured doc_id, or when the lookup finds none, the finding
\* is produced all the same and its citation holds the literal doc_id, clause
\* and source_path of the rule, the other fields being empty
C25_CitationDegrades ==
    (opKind = "check" /\ ResolvedRecord = <<>>) =>
        /\ opOut.raised =
             CallHandler(opIn.op, opIn.rule, opIn.form, opIn.config,
                         LoadLines(<<SegA1, SegA2>>, <<>>).records).raised
        /\ ~opOut.raised =>
             /\ [k \in 1..Len(opOut.body) |-> Uncited(opOut.body[k])] =
                  [k \in 1..Len(opOut.body) |->
                     Uncited(CallHandler(opIn.op, opIn.rule, opIn.form, opIn.config,
                                         LoadLines(<<SegA1, SegA2>>, <<>>).records).val[k])]
             /\ \A k \in 1..Len(opOut.body) :
                  opOut.body[k].ref =
                     [doc_id |-> Get(RefConf, "doc_id", Str("")),
                      clause |-> Get(RefConf, "clause", Null),
                      page |-> Null, snippet |-> Null, effective_date |-> Null,
                      source_path |-> Get(RefConf, "source_path", Null),
                      image_path |-> Null]

C25_Witness ==
    /\ opKind = "check" /\ ~opOut.raised /\ opOut.body # <<>>
    /\ records = <<>> /\ opIn.rule = RuleSourced
    /\ opOut.body[1].ref.doc_id = Str("policy-1")
    /\ opOut.body[1].ref.source_path = Str("manual.pdf")
    /\ IsNull(opOut.body[1].ref.snippet)

\* the check of the call configures a message of its own
HasCheckMessage ==
    IsDict(opIn.config) /\ Get(opIn.config, "message", Str("")) # Str("")

\* C26: a handler call returns at most one finding; its message is the message
\* of the check when one is configured, else the description of the rule
C26_OneFindingPerCheck ==
    (opKind = "check" /\ ~opOut.raised) =>
        /\ Len(opOut.body) <= 1
        /\ (opOut.body # <<>> /\ HasCheckMessage) =>
             opOut.body[1].message = Get(opIn.config, "message", Null)
        /\ (opOut.body # <<>> /\ ~HasCheckMessage /\ HasKey(opIn.rule, "description")) =>
             opOut.body[1].message = Get(opIn.rule, "description", Null)

C26_Witness ==
    /\ opKind = "check" /\ ~opOut.raised
    /\ Len(opOut.body) = 1 /\ Len(opOut.body[1].details) = 2
    /\ HasCheckMessage /\ HasKey(opIn.rule, "description")
    /\ opOut.body[1].message = Get(opIn.config, "message", Null)

\* the values one segment of a path reaches from one value, in order
StepFrom(v, seg) ==
    IF ~IsDict(v) \/ ~HasKey(v, StripBrackets(seg)) THEN <<>>
    ELSE IF ~EndsWithBrackets(seg) THEN <<Get(v, seg, Null)>>
    ELSE IF IsList(Get(v, StripBrackets(seg), Null))
         THEN Val(Get(v, StripBrackets(seg), Null))
         ELSE <<>>

\* the values a path reaches, one segment after the other over all branches
RECURSIVE Reached(_, _)
Reached(values, parts) ==
    IF parts = <<>> THEN values
    ELSE Reached(Flatten([i \in 1..Len(values) |-> StepFrom(values[i], Head(parts))]),
                 Tail(parts))

\* C27: path extraction yields, in document order, exactly the values reached
\* by following the path, one branch per array element at each [] segment, and
\* nothing, without error, for a branch with a missing key or a [] segment on a
\* value that is no array
C27_PathExtraction ==
    opKind = "extracted" =>
        /\ ~opOut.raised
        /\ opOut.body = Reached(<<opIn.data>>, SplitPath(Val(opIn.arg)))
        /\ (opIn.arg = Str("items[].amount_total") /\ opIn.data = DocExample) =>
             opOut.body = <<Num(1)>>
        /\ (opIn.arg = Str("items[].amount_total")
              /\ opIn.data \in {DocClean, DocNoItems, DocItemsScalar}) =>
             opOut.body = <<>>

C27_Witness ==
    /\ opKind = "extracted" /\ opIn.data = DocNested /\ opIn.arg = Str("items[].tags[]")
    /\ opOut.body = <<Str("a"), Str("b"), Str("c")>>

\* the string a regex criterion searches: the field as a string, the empty
\* string for an absent field
SearchedText(item, key) == IF HasKey(item, key) THEN PyStr(Get(item, key, Null)) ELSE ""

\* the item meets one criterion of a filter
MeetsCriterion(item, key, expected) ==
    IF IsList(expected)
    THEN \E k \in 1..Len(Val(expected)) : PyEq(Get(item, key, Null), Val(expected)[k])
    ELSE IF IsDict(expected) /\ HasKey(expected, "regex")
    THEN ReSearch(Val(Get(expected, "regex", Null)), TRUE, SearchedText(item, key))
    ELSE PyEq(Get(item, key, Null), expected)

\* the item meets all criteria of the filter; a missing filter has none
MeetsAll(item, item_filter) ==
    IsNull(item_filter) \/
    \A k \in 1..Len(Val(item_filter)) :
        MeetsCriterion(item, Val(item_filter)[k][1], Val(item_filter)[k][2])

\* the item entries of a form
ItemEntries(form) ==
    IF IsList(Get(form, "items", List(<<>>)))
    THEN SelectSeq(Val(Get(form, "items", List(<<>>))), LAMBDA it : IsDict(it))
    ELSE <<>>

\* C28: the item filter returns, in original order, the items that meet all
\* criteria (literal equality, list membership, case-insensitive regex search in
\* the field as a string, an absent field being the empty string); without
\* filter or with an empty one it returns all item entries
C28_ItemFilter ==
    opKind = "filtered" =>
        /\ ~opOut.raised
        /\ opOut.body =
             SelectSeq(ItemEntries(opIn.data), LAMBDA it : MeetsAll(it, opIn.arg))

\* C29: a rule reload that fails with a configuration error leaves the rule
\* sequence as it was, and nothing but a reload changes it, so every later
\* Evaluate runs the previously loaded rules until a reload succeeds
C29_FailedReloadKeepsRules ==
    [][/\ (opKind' = "reload" /\ opOut'.raised) => rules' = rules
       /\ opKind' # "reload" => rules' = rules
       /\ opKind' = "precheck" => opOut' = Outcome(evaluate(rules, opIn', records))]_vars

C29_Witness ==
    /\ opKind = "reload" /\ opOut.raised /\ opOut.err = "ValueError"
    /\ opIn.src.exists /\ opIn.src.parses /\ ~IsList(opIn.src.data)
    /\ rules = <<RuleFields, RuleCap>>

\* C30: when the rule file does not exist the rule reload raises nothing and
\* the rule sequence becomes empty; with an empty rule sequence every Evaluate
\* returns status "ok" and no findings
C30_MissingRuleFileEmptiesRules ==
    [][/\ (/\ opKind' = "reload"
           /\ ~DocumentStore_reload(records, registry, opIn'.kb, opIn'.reg).raised
           /\ ~opIn'.src.exists) =>
              (~opOut'.raised /\ rules' = <<>>)
       /\ (opKind' = "precheck" /\ rules = <<>>) =>
              /\ ~opOut'.raised /\ rules' = <<>>
              /\ opOut'.body.status = "ok" /\ opOut'.body.findings = <<>>]_vars

C30_Witness ==
    /\ opKind = "reload" /\ ~opOut.raised /\ ~opIn.src.exists
    /\ rules = <<>> /\ Len(records) = 2

====
